---- MODULE Spec2Model ----
(***************************************************************************)
(* Stock forecasting and replenishment of vyapar-mcp.                      *)
(*                                                                         *)
(* utils/time-series.ts (the forecast engine) and                          *)
(* services/forecasting-service.ts (the planner and the aggregator) are    *)
(* modelled over a small store: products, reorder rules, daily sales       *)
(* rollups and invoice lines; with them the forecasting tools of the       *)
(* server (index.ts), the conversational orders                            *)
(* (services/conversational-orders-service.ts) and the endpoint            *)
(* POST /mcp/tools/call.                                                    *)
(*                                                                         *)
(* Numbers.  JavaScript numbers are modelled exactly: a quantity is an     *)
(* integer and a rate is a rational [n, d] with d > 0 in lowest terms.     *)
(* The confidence is kept in hundredths (0.95 is 95).                      *)
(* Time.  An instant is a number of clock ticks since the epoch; a day is  *)
(* TicksPerDay ticks, and the process runs in UTC.  Every `new Date()` and *)
(* `Date.now()` of the code is a separate read of the clock, which may     *)
(* have advanced since the previous read.                                  *)
(***************************************************************************)
EXTENDS Integers, Sequences, FiniteSets, TLC

----------------------------------------------------------------------------
(* Bounds of the model *)

\* RATE_LIMIT, the requests of one client key that one window of the rate
\* limiter lets through (100 in the code)
RATE_LIMIT == 2
\* RATE_WINDOW, the length of a window of the rate limiter in clock ticks
\* (60000 ms in the code)
RATE_WINDOW == 2

\* clock ticks per day (the code's clock has 86,400,000 per day)
TicksPerDay == 2
\* most ticks by which the clock advances during one forecast
MaxSkew == 1
\* products in the catalog
NumProducts == 2
\* the most units of one item of a draft invoice
MaxItemQuantity == 2
\* the most invoice lines created by the conversational orders
MaxInvoiceLines == 1

(* Constants of the program *)

SentinelDays == 9999
MinReorderQuantity == 10
DefaultLeadTimeDays == 7
DefaultSafetyStockDays == 3
MovingAverageWindow == 7
MinSeasonalPoints == 14
MinTrendPoints == 7
LookbackDays == 30
DefaultLimit == 20
\* the defaults of set_reorder_rule for lead_time_days and safety_stock
ToolLeadTimeDays == 7
ToolSafetyStock == 0
\* analyze_sales_trend: period_days || 30
DefaultPeriodDays == 30
\* a Date holds at most 100,000,000 days either side of the epoch
MaxDateDays == 10000 * 10000

----------------------------------------------------------------------------
(* Exact arithmetic *)

Abs(x) == IF x < 0 THEN -x ELSE x

Min(a, b) == IF a <= b THEN a ELSE b

Max(a, b) == IF a >= b THEN a ELSE b

RECURSIVE GCD(_, _)
GCD(a, b) == IF b = 0 THEN a ELSE GCD(b, a % b)

\* floor and ceiling of n / d for d > 0 (\div of TLA+ already rounds down)
FloorDiv(n, d) == n \div d

CeilDiv(n, d) == -((-n) \div d)

\* the rational n / d, d # 0, in lowest terms with a positive denominator
Rat(n, d) ==
    LET s == IF d < 0 THEN -1 ELSE 1
        g == GCD(Abs(n), Abs(d))
    IN  [n |-> (s * n) \div g, d |-> (s * d) \div g]

RInt(k) == [n |-> k, d |-> 1]

RMul(x, y) == Rat(x.n * y.n, x.d * y.d)

RAdd(x, y) == Rat(x.n * y.d + y.n * x.d, x.d * y.d)

RSub(x, y) == Rat(x.n * y.d - y.n * x.d, x.d * y.d)

\* x / y for y # 0
RDiv(x, y) == Rat(x.n * y.d, x.d * y.n)

RLess(x, y) == x.n * y.d < y.n * x.d

RPos(x) == x.n > 0

RECURSIVE SumSeq(_)
SumSeq(s) == IF s = <<>> THEN 0 ELSE Head(s) + SumSeq(Tail(s))

RECURSIVE RSumSeq(_)
RSumSeq(s) == IF s = <<>> THEN RInt(0) ELSE RAdd(Head(s), RSumSeq(Tail(s)))

\* Array.prototype.slice(-k): the last k elements
LastN(s, k) == IF Len(s) <= k THEN s ELSE SubSeq(s, Len(s) - k + 1, Len(s))

Quantities(data) == [i \in 1..Len(data) |-> data[i].quantity]

----------------------------------------------------------------------------
(* Dates *)

DayOf(t) == t \div TicksPerDay

\* Date.prototype.getDay: 0 is Sunday; day 0 (1970-01-01) was a Thursday
GetDay(day) == (day + 4) % 7

----------------------------------------------------------------------------
(* utils/time-series.ts: the forecast engine.  A SalesDataPoint is         *)
(* [date |-> day number, quantity |-> units].                              *)

calculateMovingAverage(data, windowSize) ==
    IF Len(data) = 0 THEN RInt(0)
    ELSE LET recentData == LastN(data, windowSize)
         IN  Rat(SumSeq(Quantities(recentData)), Len(recentData))

\* the points of data that fall on weekday w
OnWeekday(data, w) == SelectSeq(data, LAMBDA point : GetDay(point.date) = w)

dayTotals(data, w) == SumSeq(Quantities(OnWeekday(data, w)))

dayCounts(data, w) == Len(OnWeekday(data, w))

dayAverages(data, w) ==
    IF dayCounts(data, w) > 0 THEN Rat(dayTotals(data, w), dayCounts(data, w))
    ELSE RInt(0)

overallAvg(data) ==
    RDiv(RSumSeq([i \in 1..7 |-> dayAverages(data, i - 1)]), RInt(7))

\* a factor taken against the mean of all the points
calculateSeasonalFactor_MeanOfPoints(data, today) ==
    IF Len(data) < MinSeasonalPoints THEN RInt(1)
    ELSE IF SumSeq(Quantities(data)) > 0
         THEN RDiv(dayAverages(data, today), Rat(SumSeq(Quantities(data)), Len(data)))
         ELSE RInt(1)

\* today: the weekday of the `new Date()` read inside the function
calculateSeasonalFactor(data, today) ==
    IF Len(data) < MinSeasonalPoints THEN RInt(1)
    ELSE IF RPos(overallAvg(data))
         THEN RDiv(dayAverages(data, today), overallAvg(data))
         ELSE RInt(1)

SumSquares(data) == SumSeq([i \in 1..Len(data) |-> data[i].quantity * data[i].quantity])

\* n^2 * variance of the quantities, an integer: n * sum(q^2) - (sum q)^2
ScaledVariance(data) ==
    Len(data) * SumSquares(data) - SumSeq(Quantities(data)) * SumSeq(Quantities(data))

\* the largest x in 0..35 with x <= 35 * stdDev / avg, for avg > 0: the drop
\* of the confidence, in hundredths, that coefficientOfVariation * 0.35 makes
ConfidenceDrop(data) ==
    LET S == SumSeq(Quantities(data))
        V == ScaledVariance(data)
    IN  CHOOSE x \in 0..35 :
            /\ (x * S) * (x * S) <= 35 * 35 * V
            /\ x = 35 \/ ((x + 1) * S) * ((x + 1) * S) > 35 * 35 * V

\* the second tier closed with <= 7 instead of < 7
calculateConfidence_WideTier(data) ==
    IF Len(data) = 0 THEN 10
    ELSE IF Len(data) <= 7 THEN 40
    ELSE IF Len(data) < 30 THEN 60
    ELSE LET S == SumSeq(Quantities(data))
         IN  IF S > 0
             THEN Max(60, Min(95, 95 - ConfidenceDrop(data)))
             ELSE Max(60, Min(95, 95 - 35))

\* in hundredths, rounded up
calculateConfidence(data) ==
    IF Len(data) = 0 THEN 10
    ELSE IF Len(data) < 7 THEN 40
    ELSE IF Len(data) < 30 THEN 60
    ELSE LET S == SumSeq(Quantities(data))
         IN  IF S > 0
             THEN Max(60, Min(95, 95 - ConfidenceDrop(data)))
             ELSE Max(60, Min(95, 95 - 35))

\* the comparisons with >= and <=: a change of exactly 15% is a trend
detectTrend_Inclusive(data) ==
    IF Len(data) < MinTrendPoints THEN "stable"
    ELSE LET half       == Len(data) \div 2
             firstHalf  == SubSeq(data, 1, half)
             secondHalf == SubSeq(data, half + 1, Len(data))
             firstAvg   == Rat(SumSeq(Quantities(firstHalf)), Len(firstHalf))
             secondAvg  == Rat(SumSeq(Quantities(secondHalf)), Len(secondHalf))
         IN  IF firstAvg.n = 0
             THEN (IF secondAvg.n > 0 THEN "increasing" ELSE "stable")
             ELSE LET change == RDiv(RSub(secondAvg, firstAvg), firstAvg)
                  IN  IF ~RLess(change, Rat(15, 100)) THEN "increasing"
                      ELSE IF ~RLess(Rat(-15, 100), change) THEN "decreasing"
                      ELSE "stable"

\* (secondAvg - firstAvg) / firstAvg is Infinity for firstAvg = 0 < secondAvg
\* (increasing) and NaN for firstAvg = 0 = secondAvg (no comparison holds)
detectTrend(data) ==
    IF Len(data) < MinTrendPoints THEN "stable"
    ELSE LET half       == Len(data) \div 2
             firstHalf  == SubSeq(data, 1, half)
             secondHalf == SubSeq(data, half + 1, Len(data))
             firstAvg   == Rat(SumSeq(Quantities(firstHalf)), Len(firstHalf))
             secondAvg  == Rat(SumSeq(Quantities(secondHalf)), Len(secondHalf))
         IN  IF firstAvg.n = 0
             THEN (IF secondAvg.n > 0 THEN "increasing" ELSE "stable")
             ELSE LET change == RDiv(RSub(secondAvg, firstAvg), firstAvg)
                  IN  IF RLess(Rat(15, 100), change) THEN "increasing"
                      ELSE IF RLess(change, Rat(-15, 100)) THEN "decreasing"
                      ELSE "stable"

trendFactor(trend) ==
    IF trend = "increasing" THEN Rat(115, 100)
    ELSE IF trend = "decreasing" THEN Rat(85, 100)
    ELSE RInt(1)

\* floor(a * b / c) for b, c > 0, exact while the result lies within twice
\* the range of a Date and cut off at that distance beyond it
FloorMulDiv(a, b, c) ==
    LET q == a \div c
        r == a % c
    IN  IF Abs(q) > (2 * MaxDateDays) \div b
        THEN (IF q < 0 THEN -2 * MaxDateDays ELSE 2 * MaxDateDays)
        ELSE q * b + (r * b) \div c

\* A Date: an instant, or the Invalid Date that setDate leaves when the
\* result is out of a Date's range
ValidDate(t) == [valid |-> TRUE, time |-> t]

InvalidDate == [valid |-> FALSE, time |-> 0]

\* runoutDate.setDate(runoutDate.getDate() + days) on the Date read at now
AddDays(now, days) ==
    IF Abs(DayOf(now) + days) > MaxDateDays THEN InvalidDate
    ELSE ValidDate(now + days * TicksPerDay)

\* the division without its guard: currentStock / 0 is Infinity or NaN, and
\* the runout date an Invalid Date
FloorDaysUntilStockout_Unguarded(currentStock, adjustedDailySales) ==
    IF RPos(adjustedDailySales)
    THEN FloorMulDiv(currentStock, adjustedDailySales.d, adjustedDailySales.n)
    ELSE 2 * MaxDateDays

\* Math.floor(daysUntilStockout)
FloorDaysUntilStockout(currentStock, adjustedDailySales) ==
    IF RPos(adjustedDailySales)
    THEN FloorMulDiv(currentStock, adjustedDailySales.d, adjustedDailySales.n)
    ELSE SentinelDays

\* Math.floor in place of Math.ceil
SuggestedReorderQuantity_Floor(adjustedDailySales, reorderDays) ==
    Max(FloorDiv(adjustedDailySales.n * reorderDays, adjustedDailySales.d),
        MinReorderQuantity)

\* Math.ceil(adjustedDailySales * reorderDays), floored at the minimum
SuggestedReorderQuantity(adjustedDailySales, reorderDays) ==
    Max(CeilDiv(adjustedDailySales.n * reorderDays, adjustedDailySales.d),
        MinReorderQuantity)

\* now1 is the clock read of calculateSeasonalFactor, now2 that of the runout
\* date.  trend is not part of the ForecastResult; it is kept for the claims.
predictStockNeeds(salesHistory, currentStock, leadTimeDays, safetyStockDays, now1, now2) ==
    LET movingAvg      == calculateMovingAverage(salesHistory, MovingAverageWindow)
        seasonalFactor == calculateSeasonalFactor(salesHistory, GetDay(DayOf(now1)))
        trend          == detectTrend(salesHistory)
        adjustedDailySales ==
            RMul(RMul(movingAvg, seasonalFactor), trendFactor(trend))
    IN  [predictedRunoutDate |->
             AddDays(now2, FloorDaysUntilStockout(currentStock, adjustedDailySales)),
         suggestedReorderQuantity |->
             SuggestedReorderQuantity(adjustedDailySales, leadTimeDays + safetyStockDays),
         confidence         |-> calculateConfidence(salesHistory),
         dailyAverageSales  |-> adjustedDailySales,
         seasonalFactor     |-> seasonalFactor,
         trend              |-> trend]

----------------------------------------------------------------------------
(* The store (Supabase tables).  The server holds the service-role key, so *)
(* the store answers every query whoever the row belongs to.               *)
(*   products[p]  the row of product p: user_id, quantity,                 *)
(*                low_stock_threshold                                      *)
(*   sales[p]     the sales of p by the user user_id: a run of len         *)
(*                consecutive days ending on endDay; the first half of the *)
(*                days sold a units a day and the rest b, times wk on      *)
(*                Saturdays and Sundays.  The sale of a day is `lines`     *)
(*                lines of an invoice, paid but for the invoice of the     *)
(*                last day, whose status is lastStatus; hasRollup says     *)
(*                whether sales_history_daily holds the daily rollups;     *)
(*                sparse says whether a day on which nothing was sold has  *)
(*                no row and no invoice line, or rows with quantity 0;     *)
(*                extra holds the invoice lines created since              *)
(*   rules[<<u, p>>]  the reorder rule of user u for product p, when there *)
(*                is one                                                   *)
(*   stock_predictions  the rows of the saved forecasts                    *)
(*   invoice_drafts     the draft invoices of the conversational orders    *)
(*   clock        the system clock                                         *)

VARIABLES products, sales, rules, clock, stock_predictions, invoice_drafts

storeVars == <<products, sales, rules>>

UserIds == {1, 2}

IsWeekend(day) == GetDay(day) = 0 \/ GetDay(day) = 6

SoldOn(h, i) ==
    (IF i <= h.len \div 2 THEN h.a ELSE h.b)
        * (IF IsWeekend(h.endDay - h.len + i) THEN h.wk ELSE 1)

\* table sales_history_daily, rows of one product
sales_history_daily(h) ==
    IF h.hasRollup
    THEN SelectSeq([i \in 1..h.len |->
                       [date |-> h.endDay - h.len + i, quantity_sold |-> SoldOn(h, i),
                        user_id |-> h.user_id]],
                   LAMBDA row : ~h.sparse \/ row.quantity_sold > 0)
    ELSE <<>>

\* line j of the h.lines invoice lines that make the sale of day i
LineQuantity(h, i, j) ==
    IF h.lines = 1 THEN SoldOn(h, i)
    ELSE IF j = 1 THEN SoldOn(h, i) \div 2
    ELSE SoldOn(h, i) - SoldOn(h, i) \div 2

\* table invoice_items joined with invoices, rows of one product as stored
invoice_items(h) ==
    SelectSeq([k \in 1..(h.len * h.lines) |->
                  LET i == ((k - 1) \div h.lines) + 1
                      j == ((k - 1) % h.lines) + 1
                  IN  [quantity |-> LineQuantity(h, i, j),
                       created_at |-> (h.endDay - h.len + i) * TicksPerDay,
                       status |-> IF i = h.len THEN h.lastStatus ELSE "paid",
                       user_id |-> h.user_id]],
              LAMBDA item : ~h.sparse \/ SoldOn(h, DayOf(item.created_at) - h.endDay + h.len) > 0)
    \o h.extra

Reverse(s) == [i \in 1..Len(s) |-> s[Len(s) + 1 - i]]

\* the rows of a query without ORDER BY come in an order the store chooses
InOrder(rows, order) == IF order = "desc" THEN Reverse(rows) ELSE rows

\* dailyMap.set(date, (dailyMap.get(date) || 0) + quantity) for each row in
\* turn; a Map keeps its keys in the order of their first insertion
RECURSIVE GroupByDate(_, _)
GroupByDate(rows, dailyMap) ==
    IF rows = <<>> THEN dailyMap
    ELSE LET date == DayOf(Head(rows).created_at)
             at   == {i \in 1..Len(dailyMap) : dailyMap[i].date = date}
         IN  IF at = {}
             THEN GroupByDate(Tail(rows),
                      Append(dailyMap, [date |-> date, quantity |-> Head(rows).quantity]))
             ELSE GroupByDate(Tail(rows),
                      [i \in 1..Len(dailyMap) |->
                          IF i \in at
                          THEN [date |-> date,
                                quantity |-> dailyMap[i].quantity + Head(rows).quantity]
                          ELSE dailyMap[i]])

\* now0: the clock read that sets startDate; up: whether the history queries
\* are answered (a failed query leaves data null, which the code reads as no
\* rows); order: the order in which the store returns the invoice lines
getSalesHistory(userId, h, now0, up, order) ==
    LET startDay   == DayOf(now0) - LookbackDays
        startDate  == now0 - LookbackDays * TicksPerDay
        aggregated ==
            IF up
            THEN SelectSeq(sales_history_daily(h),
                     LAMBDA row : row.user_id = userId /\ row.date >= startDay)
            ELSE <<>>
        invoiceItems ==
            IF up
            THEN InOrder(SelectSeq(invoice_items(h),
                            LAMBDA item : /\ item.user_id = userId
                                          /\ item.status = "paid"
                                          /\ item.created_at >= startDate),
                         order)
            ELSE <<>>
    IN  IF Len(aggregated) > 0
        THEN [i \in 1..Len(aggregated) |->
                 [date |-> aggregated[i].date, quantity |-> aggregated[i].quantity_sold]]
        ELSE GroupByDate(invoiceItems, <<>>)

----------------------------------------------------------------------------
(* services/forecasting-service.ts: the planner *)

\* A row of reorder_rules, or the absence of one.  preferred_supplier_id 0 is
\* NULL.
NoRule == [exists |-> FALSE, auto_reorder |-> FALSE, reorder_point |-> 0,
           reorder_quantity |-> 0, preferred_supplier_id |-> 0,
           lead_time_days |-> 0, safety_stock |-> 0]

Rule(lead, safety) ==
    [exists |-> TRUE, auto_reorder |-> TRUE, reorder_point |-> 5,
     reorder_quantity |-> 40, preferred_supplier_id |-> 1,
     lead_time_days |-> lead, safety_stock |-> safety]

\* reorderRule?.lead_time_days || 7
leadTimeDaysOf(reorderRule) ==
    IF reorderRule.exists /\ reorderRule.lead_time_days # 0
    THEN reorderRule.lead_time_days
    ELSE DefaultLeadTimeDays

\* reorderRule?.safety_stock ? Math.ceil(reorderRule.safety_stock / 10) : 3
safetyStockDaysOf(reorderRule) ==
    IF reorderRule.exists /\ reorderRule.safety_stock # 0
    THEN CeilDiv(reorderRule.safety_stock, 10)
    ELSE DefaultSafetyStockDays

\* the difference in days without Math.max(0, ...)
daysUntilRunoutOf_Unclamped(predictedRunoutDate, now3) ==
    FloorDiv(predictedRunoutDate.time - now3, TicksPerDay)

\* Math.max(0, Math.floor((predictedRunoutDate.getTime() - Date.now()) / day)),
\* with now3 the Date.now() read
daysUntilRunoutOf(predictedRunoutDate, now3) ==
    Max(0, FloorDiv(predictedRunoutDate.time - now3, TicksPerDay))

\* the second threshold compared with < instead of <=
urgencyOf_StrictHigh(daysUntilRunout) ==
    IF daysUntilRunout <= 3 THEN "critical"
    ELSE IF daysUntilRunout < 7 THEN "high"
    ELSE IF daysUntilRunout <= 14 THEN "medium"
    ELSE "low"

urgencyOf(daysUntilRunout) ==
    IF daysUntilRunout <= 3 THEN "critical"
    ELSE IF daysUntilRunout <= 7 THEN "high"
    ELSE IF daysUntilRunout <= 14 THEN "medium"
    ELSE "low"

\* should_reorder taken from the urgency: true for critical and high
shouldReorderOf_FromUrgency(daysUntilRunout, leadTimeDays) == daysUntilRunout <= 7

shouldReorderOf(daysUntilRunout, leadTimeDays) == daysUntilRunout <= leadTimeDays

Thrown(message) == [status |-> "thrown", error |-> message]

\* a products query that does not look at the owner of the row
InCatalog_AnyOwner(prods, userId, p) == p \in DOMAIN prods

\* whether the products query .eq('id', p).eq('user_id', userId) has a row
InCatalog(prods, userId, p) == p \in DOMAIN prods /\ prods[p].user_id = userId

\* The outcome of predictSingleProduct(userId, p) on store tables prods, sls
\* and rls.  faults: the queries the store fails to answer; now0..now3: the
\* four clock reads, in order; order: see getSalesHistory.  A returned outcome
\* carries the StockForecast and, for the claims, what it was computed from.
predictSingleProduct(prods, sls, rls, userId, p, faults, now0, now1, now2, now3, order) ==
    IF ~InCatalog(prods, userId, p) \/ "products" \in faults
    THEN Thrown("Product not found")
    ELSE
    LET product         == prods[p]
        salesHistory    == getSalesHistory(userId, sls[p], now0, "history" \notin faults, order)
        reorderRule     == IF "rules" \in faults THEN NoRule ELSE rls[<<userId, p>>]
        leadTimeDays    == leadTimeDaysOf(reorderRule)
        safetyStockDays == safetyStockDaysOf(reorderRule)
        forecast        == predictStockNeeds(salesHistory, product.quantity,
                                             leadTimeDays, safetyStockDays, now1, now2)
        daysUntilRunout == daysUntilRunoutOf(forecast.predictedRunoutDate, now3)
    IN  IF ~forecast.predictedRunoutDate.valid
        THEN Thrown("RangeError: Invalid time value")
        ELSE [status |-> "returned",
              forecast |->
                  [product_id |-> p,
                   product_name |-> product.name,
                   current_stock |-> product.quantity,
                   predicted_runout_date |-> forecast.predictedRunoutDate.time,
                   days_until_runout |-> daysUntilRunout,
                   suggested_reorder_quantity |-> forecast.suggestedReorderQuantity,
                   confidence |-> forecast.confidence,
                   urgency |-> urgencyOf(daysUntilRunout),
                   should_reorder |-> shouldReorderOf(daysUntilRunout, leadTimeDays)],
              salesHistory |-> salesHistory,
              leadTimeDays |-> leadTimeDays,
              safetyStockDays |-> safetyStockDays,
              result |-> forecast]

----------------------------------------------------------------------------
(* The requests.                                                           *)
(*   call    the last get_product_forecast request and its outcome         *)
(*   replay  the outcome of the same request run once more from the        *)
(*           instant at which `call` started, on the same store            *)
(*   batch   the getRestockRecommendations request in progress: its user,  *)
(*           position, the products still to forecast, the forecasts       *)
(*           pushed so far, the products whose forecast threw, and what    *)
(*           the request returned                                          *)
(*   tool    the last call of a tool other than get_product_forecast, and  *)
(*           its response                                                  *)
(* The server.                                                             *)
(*   rateLimitMap  the entry of every client key of the rate limiter       *)
(*   windows       for every client key, what the requests of its latest   *)
(*                 window met: the reset time of the window, the instant   *)
(*                 of its first request, how many requests it had and how  *)
(*                 many of them went on to the handlers, and the reset     *)
(*                 time of the window before it                            *)
(*   limited       the last request that reached the rate limiter and what *)
(*                 the limiter did with it                                 *)
(*   invoices      the rows of the table invoices that the conversational  *)
(*                 orders created                                          *)
(*   procs         the requests in progress that run step by step, each at *)
(*                 the query it awaits                                     *)

VARIABLES call, replay, batch, tool

VARIABLES rateLimitMap, windows, limited, invoices, procs

serverVars == <<rateLimitMap, windows, limited, invoices, procs>>

vars == <<products, sales, rules, clock, stock_predictions, invoice_drafts,
          call, replay, batch, tool, serverVars>>

NoCall == [status |-> "none"]

Idle == [pc |-> "idle", userId |-> 0, options |-> [onlyLowStock |-> FALSE], queue |-> <<>>,
         fetched |-> <<>>, forecasts |-> <<>>, failed |-> {}, ret |-> NoCall]

NoTool == [name |-> "none", status |-> "none"]

\* the advances of the clock before the second, third and fourth clock read
\* of a forecast: the clock advances at most once while the forecast runs, by
\* less than a day
ClockSkews ==
    {e \in (0..MaxSkew) \X (0..MaxSkew) \X (0..MaxSkew) :
        /\ Cardinality({i \in 1..3 : e[i] > 0}) <= 1
        /\ e[1] + e[2] + e[3] < TicksPerDay}

\* at most one of the three queries of a forecast fails
Faults == {{}, {"products"}, {"history"}, {"rules"}}

\* the orders the store may return the invoice lines in, when they are read
Orders(userId, h, now0, faults) ==
    LET rows == sales_history_daily(h)
    IN  IF "history" \notin faults
           /\ \A i \in 1..Len(rows) :
                 rows[i].user_id # userId \/ rows[i].date < DayOf(now0) - LookbackDays
        THEN {"asc", "desc"}
        ELSE {"asc"}

\* the store's answers to the queries of a forecast of product p: when the
\* product is not in the user's catalog the products query has no row to
\* return
FaultsFor(userId, p, faultSets) ==
    IF InCatalog(products, userId, p) THEN faultSets ELSE {{}}

\* a forecast that throws at the products query reads no clock
SkewsFor(userId, p, faults) ==
    IF InCatalog(products, userId, p) /\ "products" \notin faults THEN ClockSkews
    ELSE {<<0, 0, 0>>}

\* predictSingleProduct started at instant now0 with clock advances e
Forecast(userId, p, faults, now0, e, order) ==
    predictSingleProduct(products, sales, rules, userId, p, faults,
                         now0, now0 + e[1], now0 + e[1] + e[2],
                         now0 + e[1] + e[2] + e[3], order)

\* saveForecast: the table stock_predictions after the insert
saveForecast(predictions, userId, forecast) ==
    Append(predictions,
           [user_id |-> userId,
            product_id |-> forecast.product_id,
            predicted_date |-> forecast.predicted_runout_date,
            predicted_quantity |-> forecast.suggested_reorder_quantity,
            confidence_score |-> forecast.confidence,
            factors |-> [urgency |-> forecast.urgency,
                         days_until_runout |-> forecast.days_until_runout]])

\* a forecast that saves what it returns
predictionsAfterForecast_Saved(predictions, userId, outcome) ==
    IF outcome.status = "returned"
    THEN saveForecast(predictions, userId, outcome.forecast)
    ELSE predictions

\* predictSingleProduct returns the StockForecast and writes nothing: the
\* table stock_predictions after a forecast with this outcome
predictionsAfterForecast(predictions, userId, outcome) == predictions

\* the product ids a request may name: those of the table and one that is
\* not in it
RequestIds == DOMAIN products \cup {0}

\* handleToolCall, case 'get_product_forecast', for user userId
GetProductForecast(userId, p) ==
    /\ call.status = "none"
    /\ \E faults \in FaultsFor(userId, p, Faults) :
         \E e \in SkewsFor(userId, p, faults),
            order \in (IF InCatalog(products, userId, p)
                       THEN Orders(userId, sales[p], clock, faults)
                       ELSE {"asc"}) :
            \E outcome \in {Forecast(userId, p, faults, clock, e, order)} :
                /\ call' = [userId |-> userId, product |-> p, now0 |-> clock,
                            faults |-> faults, order |-> order] @@ outcome
                /\ stock_predictions' =
                       predictionsAfterForecast(stock_predictions, userId, outcome)
                /\ clock' = clock + e[1] + e[2] + e[3]
    /\ UNCHANGED <<storeVars, invoice_drafts, replay, batch, tool, serverVars>>

\* the same request, from the same instant, store and store answers: a second
\* run of the program, with its own clock reads
ReplayProductForecast ==
    /\ call.status # "none"
    /\ replay.status = "none"
    /\ \E e \in ClockSkews :
          replay' = Forecast(call.userId, call.product, call.faults, call.now0, e, call.order)
    /\ UNCHANGED <<storeVars, stock_predictions, invoice_drafts, clock, call, batch, tool, serverVars>>

\* urgencyOrder = { critical: 0, high: 1, medium: 2, low: 3 }
urgencyOrder(urgency) ==
    IF urgency = "critical" THEN 0
    ELSE IF urgency = "high" THEN 1
    ELSE IF urgency = "medium" THEN 2
    ELSE 3

\* a sort that leaves the forecasts in the order of the catalog
sortByUrgency_Unsorted(forecasts) == forecasts

\* forecasts.sort((a, b) => urgencyOrder[a.urgency] - urgencyOrder[b.urgency]):
\* Array.prototype.sort is stable, so forecasts that compare equal keep the
\* order in which they were pushed
sortByUrgency(forecasts) ==
    LET ranked(r) == SelectSeq(forecasts, LAMBDA f : urgencyOrder(f.urgency) = r)
    IN  ranked(0) \o ranked(1) \o ranked(2) \o ranked(3)

\* the product ids 1..n of the table, as a sequence
RECURSIVE IdSeq(_)
IdSeq(n) == IF n = 0 THEN <<>> ELSE Append(IdSeq(n - 1), n)

\* getRestockRecommendations up to its loop, as a request b.  fetchOk:
\* whether the products query is answered.  The store returns the rows in the
\* order of their ids; the initial states put every row at every place of
\* that order.
startRecommendations(b, userId, onlyLowStock, fetchOk) ==
    LET allProducts == SelectSeq(IdSeq(Cardinality(DOMAIN products)),
                           LAMBDA p : products[p].user_id = userId)
        prods == IF onlyLowStock
                 THEN SelectSeq(allProducts,
                          LAMBDA p : products[p].quantity <= products[p].low_stock_threshold)
                 ELSE allProducts
        started == [b EXCEPT !.userId = userId,
                             !.options = [onlyLowStock |-> onlyLowStock]]
    IN  IF ~fetchOk
        THEN [started EXCEPT !.pc = "done",
                             !.ret = Thrown("Failed to fetch products")]
        ELSE IF Len(prods) = 0
        THEN [started EXCEPT !.pc = "done", !.fetched = prods,
                             !.ret = [status |-> "returned", value |-> <<>>]]
        ELSE [started EXCEPT !.pc = "loop", !.fetched = prods, !.queue = prods]

\* a call of getRestockRecommendations(userId, {onlyLowStock})
StartRestockRecommendations(userId, onlyLowStock, fetchOk) ==
    /\ batch.pc = "idle"
    /\ tool.status = "none"
    /\ batch' = startRecommendations(batch, userId, onlyLowStock, fetchOk)
    /\ UNCHANGED <<storeVars, stock_predictions, invoice_drafts, clock, call, replay, tool, serverVars>>

\* In the loop the products query of a forecast fails or not (the product was
\* deleted, the store is down).  A failed history query leaves the forecast
\* of a product without sales, and a failed rule query that of a product
\* without a rule: the catalog holds such products.
BatchFaults == {{}, {"products"}}

\* the loop without its try/catch: a forecast that throws ends the request
tryForecast_Rethrow(b, p, outcome) ==
    IF outcome.status = "returned"
    THEN [b EXCEPT !.queue = Tail(b.queue),
                   !.forecasts = Append(b.forecasts, outcome.forecast)]
    ELSE [b EXCEPT !.pc = "done", !.queue = <<>>, !.failed = b.failed \cup {p},
                   !.ret = Thrown(outcome.error)]

\* try { forecasts.push(await predictSingleProduct(...)) } catch { log }: the
\* request b after the turn of the loop in which the forecast of product p
\* had this outcome
tryForecast(b, p, outcome) ==
    IF outcome.status = "returned"
    THEN [b EXCEPT !.queue = Tail(b.queue),
                   !.forecasts = Append(b.forecasts, outcome.forecast)]
    ELSE [b EXCEPT !.queue = Tail(b.queue),
                   !.failed = b.failed \cup {p}]

\* after the loop: the sort and the return
returnSorted(b) ==
    [b EXCEPT !.pc = "done",
              !.ret = [status |-> "returned", value |-> sortByUrgency(b.forecasts)]]

\* An argument of a tool call: a value, or undefined when the caller left it
\* out.
Undefined == [given |-> FALSE, value |-> 0]

Given(v) == [given |-> TRUE, value |-> v]

\* (arg as number) || default: undefined and 0 are falsy
NumberOr(arg, default) ==
    IF arg.given /\ arg.value # 0 THEN arg.value ELSE default

\* Array.prototype.slice(0, end) for an integer end
SliceTo(s, end) ==
    LET to == IF end < 0 THEN Max(Len(s) + end, 0) ELSE Min(end, Len(s))
    IN  SubSeq(s, 1, to)

\* the values of urgency_filter: "" stands for a call without one
UrgencyFilters == {"", "critical", "high", "medium", "all"}

\* the values of limit
Limits == {Undefined, Given(0), Given(1), Given(2)}

\* (args.urgency_filter as string) || 'high', and the test of the filter
passesUrgencyFilter(urgency_filter, r) ==
    LET urgencyFilter == IF urgency_filter = "" THEN "high" ELSE urgency_filter
    IN  IF urgencyFilter = "all" THEN TRUE
        ELSE IF urgencyFilter = "critical" THEN r.urgency = "critical"
        ELSE IF urgencyFilter = "high" THEN r.urgency \in {"critical", "high"}
        ELSE IF urgencyFilter = "medium" THEN r.urgency \in {"critical", "high", "medium"}
        ELSE TRUE

\* handleToolCall, case 'get_restock_recommendations', after the aggregator
\* answered ret: the filter and the slice
restockRecommendationsOf(ret, urgency_filter, limit) ==
    IF ret.status = "thrown" THEN ret
    ELSE LET filteredRecs ==
                 SelectSeq(ret.value, LAMBDA r : passesUrgencyFilter(urgency_filter, r))
         IN  [status |-> "returned",
              value |-> SliceTo(filteredRecs, NumberOr(limit, DefaultLimit))]

\* the call of get_restock_recommendations while the aggregator runs
PendingRecommendations(userId) ==
    [name |-> "get_restock_recommendations", status |-> "pending", userId |-> userId]

\* The call of get_restock_recommendations once the aggregator has answered
\* ret.  The handler reads urgency_filter and limit only now, so the call
\* gets their values here.
AnsweredRecommendations(userId, ret, urgency_filter, limit) ==
    [name |-> "get_restock_recommendations", status |-> "done", userId |-> userId,
     args |-> [urgency_filter |-> urgency_filter, limit |-> limit],
     recommendations |-> ret,
     response |-> restockRecommendationsOf(ret, urgency_filter, limit)]

\* handleToolCall, case 'get_restock_recommendations', up to the loop of the
\* aggregator
GetRestockRecommendations(userId, fetchOk) ==
    /\ batch.pc = "idle"
    /\ tool.status = "none"
    /\ \E started \in {startRecommendations(batch, userId, TRUE, fetchOk)} :
           /\ batch' = started
           /\ IF started.pc = "done"
              THEN \E urgency_filter \in UrgencyFilters, limit \in Limits :
                     tool' = AnsweredRecommendations(userId, started.ret,
                                                     urgency_filter, limit)
              ELSE tool' = PendingRecommendations(userId)
    /\ UNCHANGED <<storeVars, stock_predictions, invoice_drafts, clock, call, replay, serverVars>>

\* one turn of the loop of getRestockRecommendations and, after the last
\* product, the rest of the function and of the handler that called it
ForecastNextProduct ==
    /\ batch.pc = "loop"
    /\ LET p == Head(batch.queue)
           userId == batch.userId
       IN  \E faults \in BatchFaults :
           \E e \in SkewsFor(userId, p, faults),
              order \in Orders(userId, sales[p], clock, faults) :
             \E outcome \in {Forecast(userId, p, faults, clock, e, order)} :
             \E after \in {tryForecast(batch, p, outcome)} :
             \E final \in {IF after.pc = "loop" /\ after.queue = <<>>
                            THEN returnSorted(after)
                            ELSE after} :
                 /\ batch' = final
                 /\ stock_predictions' =
                        predictionsAfterForecast(stock_predictions, userId, outcome)
                 /\ clock' = clock + e[1] + e[2] + e[3]
                 /\ IF tool.status = "pending" /\ final.pc = "done"
                    THEN \E urgency_filter \in UrgencyFilters, limit \in Limits :
                           tool' = AnsweredRecommendations(userId, final.ret,
                                                           urgency_filter, limit)
                    ELSE tool' = tool
    /\ UNCHANGED <<storeVars, invoice_drafts, call, replay, serverVars>>

----------------------------------------------------------------------------
(* Reorder rules and saved forecasts *)

\* an undefined boolean argument
UndefinedFlag == [given |-> FALSE, value |-> FALSE]

\* the columns of reorder_rules that a call of set_reorder_rule may set
RuleFields == {"auto_reorder", "reorder_point", "reorder_quantity",
               "preferred_supplier_id", "lead_time_days", "safety_stock"}

\* the rule with reorder_point and reorder_quantity defaulted like its
\* neighbours
ruleOf_DefaultedRequired(args) ==
    [auto_reorder          |-> args.auto_reorder,
     reorder_point         |-> Given(NumberOr(args.reorder_point, 0)),
     reorder_quantity      |-> Given(NumberOr(args.reorder_quantity, 0)),
     preferred_supplier_id |-> args.preferred_supplier_id,
     lead_time_days        |-> Given(NumberOr(args.lead_time_days, ToolLeadTimeDays)),
     safety_stock          |-> Given(NumberOr(args.safety_stock, ToolSafetyStock))]

\* handleToolCall, case 'set_reorder_rule': the rule object it passes to
\* setReorderRule
ruleOf(args) ==
    [auto_reorder          |-> args.auto_reorder,
     reorder_point         |-> args.reorder_point,
     reorder_quantity      |-> args.reorder_quantity,
     preferred_supplier_id |-> args.preferred_supplier_id,
     lead_time_days        |-> Given(NumberOr(args.lead_time_days, ToolLeadTimeDays)),
     safety_stock          |-> Given(NumberOr(args.safety_stock, ToolSafetyStock))]

\* the row that the store creates for a rule: the columns that the rule
\* leaves out get their defaults
NewRule ==
    [exists |-> TRUE, auto_reorder |-> FALSE, reorder_point |-> 0,
     reorder_quantity |-> 0, preferred_supplier_id |-> 0,
     lead_time_days |-> 7, safety_stock |-> 0]

\* The store's upsert of {user_id, product_id, ...rule} into reorder_rules,
\* keyed by (user_id, product_id); an undefined property of the rule is not
\* sent.  The result: whether the store reports an error, and the table.
upsertReorderRule(rls, userId, productId, rule) ==
    LET key == <<userId, productId>>
        old == IF rls[key].exists THEN rls[key] ELSE NewRule
    IN  IF ~rule.reorder_point.given \/ ~rule.reorder_quantity.given
        THEN [error |-> TRUE, rules |-> rls]
        ELSE [error |-> FALSE,
              rules |-> [rls EXCEPT ![key] =
                  [exists                |-> TRUE,
                   auto_reorder          |-> IF rule.auto_reorder.given
                                             THEN rule.auto_reorder.value
                                             ELSE old.auto_reorder,
                   reorder_point         |-> rule.reorder_point.value,
                   reorder_quantity      |-> rule.reorder_quantity.value,
                   preferred_supplier_id |-> IF rule.preferred_supplier_id.given
                                             THEN rule.preferred_supplier_id.value
                                             ELSE old.preferred_supplier_id,
                   lead_time_days        |-> IF rule.lead_time_days.given
                                             THEN rule.lead_time_days.value
                                             ELSE old.lead_time_days,
                   safety_stock          |-> IF rule.safety_stock.given
                                             THEN rule.safety_stock.value
                                             ELSE old.safety_stock]]]

\* ForecastingService.setReorderRule; up: whether the store is reached
setReorderRule(rls, userId, productId, rule, up) ==
    LET upserted == IF up THEN upsertReorderRule(rls, userId, productId, rule)
                    ELSE [error |-> TRUE, rules |-> rls]
    IN  IF upserted.error
        THEN [response |-> Thrown("Failed to set reorder rule"), rules |-> upserted.rules]
        ELSE [response |-> [status |-> "returned"], rules |-> upserted.rules]

\* handleToolCall, case 'set_reorder_rule'.  rulesBefore keeps the table as
\* it was, for the claims.
SetReorderRule(userId, p, args, up) ==
    /\ tool.status = "none"
    /\ \E set \in {setReorderRule(rules, userId, p, ruleOf(args), up)} :
          /\ rules' = set.rules
          /\ tool' = [name |-> "set_reorder_rule", status |-> "done", userId |-> userId,
                      product |-> p, args |-> args, up |-> up, rulesBefore |-> rules,
                      response |-> set.response]
    /\ UNCHANGED <<products, sales, stock_predictions, invoice_drafts, clock,
                   call, replay, batch, serverVars>>

\* a call of ForecastingService.saveForecast(userId, forecast); the code does
\* not look at the error of the insert, so a failed insert (up false) passes
\* in silence
SaveForecast(userId, forecast, up) ==
    /\ tool.status = "none"
    /\ stock_predictions' = IF up THEN saveForecast(stock_predictions, userId, forecast)
                            ELSE stock_predictions
    /\ tool' = [name |-> "save_forecast", status |-> "done", userId |-> userId,
                forecast |-> forecast, up |-> up, response |-> [status |-> "returned"]]
    /\ UNCHANGED <<storeVars, invoice_drafts, clock, call, replay, batch, serverVars>>

\* the forecasts that the requests so far have returned
ReturnedForecasts ==
    (IF call.status = "returned" THEN {call.forecast} ELSE {})
    \cup (IF batch.pc = "done" /\ batch.ret.status = "returned"
          THEN {batch.ret.value[i] : i \in 1..Len(batch.ret.value)}
          ELSE {})

\* handleToolCall, case 'analyze_sales_trend': what it returns for the outcome
\* of predictSingleProduct
salesTrendOf(p, period_days, outcome) ==
    IF outcome.status # "returned" THEN Thrown(outcome.error)
    ELSE [status |-> "returned",
          value |->
              [product_id |-> p,
               period_days |-> NumberOr(period_days, DefaultPeriodDays),
               daily_average_sales |-> Rat(outcome.forecast.suggested_reorder_quantity, 7),
               confidence |-> outcome.forecast.confidence,
               urgency |-> outcome.forecast.urgency,
               trend |-> IF outcome.forecast.days_until_runout < 7
                         THEN "increasing" ELSE "stable"]]

\* handleToolCall, case 'analyze_sales_trend'.  detected keeps, for the
\* claims, the trend that predictStockNeeds found in the series.
AnalyzeSalesTrend(userId, p, period_days) ==
    /\ tool.status = "none"
    /\ \E faults \in FaultsFor(userId, p, Faults) :
         \E e \in SkewsFor(userId, p, faults),
            order \in (IF InCatalog(products, userId, p)
                       THEN Orders(userId, sales[p], clock, faults)
                       ELSE {"asc"}) :
            \E outcome \in {Forecast(userId, p, faults, clock, e, order)} :
                /\ tool' = [name |-> "analyze_sales_trend", status |-> "done",
                            userId |-> userId, product |-> p,
                            period_days |-> period_days, faults |-> faults,
                            detected |-> IF outcome.status = "returned"
                                         THEN outcome.result.trend ELSE "none",
                            response |-> salesTrendOf(p, period_days, outcome)]
                /\ stock_predictions' =
                       predictionsAfterForecast(stock_predictions, userId, outcome)
                /\ clock' = clock + e[1] + e[2] + e[3]
    /\ UNCHANGED <<storeVars, invoice_drafts, call, replay, batch, serverVars>>

----------------------------------------------------------------------------
(* services/conversational-orders-service.ts and the endpoint              *)
(* POST /mcp/tools/call.  A row of invoice_drafts is                       *)
(* [user_id, session_id, items]; a DraftItem is                            *)
(* [product_id, product_name, quantity].  The prices, the tax and the      *)
(* totals of the items are left out: no stock and no owner depends on them.*)

\* the rows that .eq('session_id', ...).eq('user_id', ...) selects
DraftsOf(drafts, userId, session_id) ==
    {i \in 1..Len(drafts) :
        drafts[i].session_id = session_id /\ drafts[i].user_id = userId}

\* initDraftInvoice; up: whether the insert succeeds
initDraftInvoice(drafts, input, up) ==
    IF ~up
    THEN [response |-> Thrown("Failed to create draft invoice"), drafts |-> drafts]
    ELSE [response |-> [status |-> "returned"],
          drafts |-> Append(drafts, [user_id |-> input.user_id,
                                     session_id |-> input.session_id,
                                     items |-> <<>>])]

\* fuzzySearchProduct: the products of the user with that name
fuzzySearchProduct(prods, userId, productName) ==
    {q \in DOMAIN prods : prods[q].user_id = userId /\ prods[q].name = productName}

\* items.findIndex(item => item.product_id === productId ||
\*                         item.product_name === input.product_name)
existingIndex(items, productId, productName) ==
    LET at == {i \in 1..Len(items) :
                  items[i].product_id = productId \/ items[i].product_name = productName}
    IN  IF at = {} THEN 0 ELSE CHOOSE i \in at : \A j \in at : i <= j

\* addInvoiceItem; up: whether the update of the draft succeeds
addInvoiceItem(prods, drafts, input, up) ==
    LET found == DraftsOf(drafts, input.user_id, input.session_id)
        draft == CHOOSE i \in found : TRUE
        searched == fuzzySearchProduct(prods, input.user_id, input.product_name)
        productId == IF input.product_id.given THEN input.product_id.value
                     ELSE CHOOSE q \in searched : TRUE
        items == drafts[draft].items
        at    == existingIndex(items, productId, input.product_name)
        newItems ==
            IF at > 0
            THEN [items EXCEPT ![at].quantity = @ + input.quantity]
            ELSE Append(items, [product_id |-> productId,
                                product_name |-> input.product_name,
                                quantity |-> input.quantity])
    IN  IF Cardinality(found) # 1
        THEN [response |-> Thrown("Draft invoice not found. Please start a new order."),
              drafts |-> drafts]
        ELSE IF ~input.product_id.given /\ searched = {}
        THEN [response |-> Thrown("Product not found in inventory"), drafts |-> drafts]
        ELSE IF ~up
        THEN [response |-> Thrown("Failed to update draft"), drafts |-> drafts]
        ELSE [response |-> [status |-> "returned"],
              drafts |-> [drafts EXCEPT ![draft].items = newItems]]

\* the rows inserted into invoice_items for the items of the invoice of
\* userId created at instant now, with the status of that invoice
RECURSIVE insertInvoiceItems(_, _, _, _)
insertInvoiceItems(sls, items, userId, now) ==
    IF items = <<>> THEN sls
    ELSE LET item == Head(items)
             row  == [quantity |-> item.quantity, created_at |-> now,
                      status |-> "paid", user_id |-> userId]
         IN  insertInvoiceItems(
                 IF item.product_id \in DOMAIN sls
                 THEN [sls EXCEPT ![item.product_id].extra = Append(@, row)]
                 ELSE sls,
                 Tail(items), userId, now)

\* for (const item of items): select quantity .eq('id', item.product_id),
\* then update({quantity: product.quantity - item.quantity})
\* .eq('id', item.product_id)
RECURSIVE updateProductStock(_, _, _)
updateProductStock(prods, items, userId) ==
    IF items = <<>> THEN prods
    ELSE LET item == Head(items)
         IN  updateProductStock(
                 IF item.product_id \in DOMAIN prods
                 THEN [prods EXCEPT ![item.product_id].quantity = @ - item.quantity]
                 ELSE prods,
                 Tail(items), userId)

\* the sequence s without its element i
Without(s, i) == SubSeq(s, 1, i - 1) \o SubSeq(s, i + 1, Len(s))

\* the row inserted into invoices; session_id is not a column of the table:
\* it tells from which draft the invoice was made
insertInvoice(invs, input) ==
    Append(invs, [user_id |-> input.user_id, session_id |-> input.session_id])

\* finalizeDraftInvoice at instant now, run without any other request in
\* between; up: whether the insert of the invoice succeeds
finalizeDraftInvoice(prods, sls, invs, drafts, input, now, up) ==
    LET found == DraftsOf(drafts, input.user_id, input.session_id)
        draft == CHOOSE i \in found : TRUE
        items == drafts[draft].items
        same(message) == [response |-> Thrown(message), products |-> prods,
                          sales |-> sls, invoices |-> invs, drafts |-> drafts]
    IN  IF Cardinality(found) # 1 THEN same("Draft invoice not found")
        ELSE IF Len(items) = 0 THEN same("Cannot create invoice: no items in draft")
        ELSE IF ~up THEN same("Failed to create invoice")
        ELSE [response |-> [status |-> "returned"],
              products |-> updateProductStock(prods, items, input.user_id),
              sales |-> insertInvoiceItems(sls, items, input.user_id, now),
              invoices |-> insertInvoice(invs, input),
              drafts |-> Without(drafts, draft)]

\* handleToolCall for the tools of the conversational orders: the response
\* and the tables after the call
handleToolCall(name, args, up) ==
    LET input == [user_id |-> args.user_id.value, session_id |-> args.session_id,
                  product_id |-> args.product_id, product_name |-> args.product_name,
                  quantity |-> args.quantity]
    IN  IF name = "init_draft_invoice"
        THEN LET r == initDraftInvoice(invoice_drafts, input, up)
             IN  [response |-> r.response, products |-> products, sales |-> sales,
                  invoices |-> invoices, drafts |-> r.drafts]
        ELSE IF name = "add_invoice_item"
        THEN LET r == addInvoiceItem(products, invoice_drafts, input, up)
             IN  [response |-> r.response, products |-> products, sales |-> sales,
                  invoices |-> invoices, drafts |-> r.drafts]
        ELSE finalizeDraftInvoice(products, sales, invoices, invoice_drafts, input, clock,
                                  up)

\* app.post('/mcp/tools/call'): the status of the answer and the tables after
\* the request of the authenticated user
postToolsCall(authenticatedUserId, name, args, up) ==
    LET finalArgs == [args EXCEPT !.user_id =
                         Given(NumberOr(args.user_id, authenticatedUserId))]
        result == handleToolCall(name, finalArgs, up)
    IN  IF args.user_id.given /\ args.user_id.value # authenticatedUserId
        THEN [http |-> 403, response |-> Thrown("Forbidden"), products |-> products,
              sales |-> sales, invoices |-> invoices, drafts |-> invoice_drafts]
        ELSE [http |-> IF result.response.status = "returned" THEN 200 ELSE 400]
                 @@ result

\* the number of invoice lines that the conversational orders have created
RECURSIVE InvoiceLines(_, _)
InvoiceLines(sls, n) ==
    IF n = 0 THEN 0 ELSE Len(sls[n].extra) + InvoiceLines(sls, n - 1)

\* a request POST /mcp/tools/call {name, arguments: args} with the token of
\* authenticatedUserId.  A session_id given to init_draft_invoice is one that
\* no draft has, like the one the service makes up when it is left out.
PostToolsCall(authenticatedUserId, name, args, up) ==
    /\ name = "init_draft_invoice" =>
           \A i \in 1..Len(invoice_drafts) : invoice_drafts[i].session_id # args.session_id
    /\ \E answer \in {postToolsCall(authenticatedUserId, name, args, up)} :
          /\ \A i \in 1..Len(answer.drafts) :
                \A k \in 1..Len(answer.drafts[i].items) :
                    answer.drafts[i].items[k].quantity <= MaxItemQuantity
          /\ InvoiceLines(answer.sales, Cardinality(DOMAIN answer.sales)) <= MaxInvoiceLines
          /\ products' = answer.products
          /\ sales' = answer.sales
          /\ invoice_drafts' = answer.drafts
          /\ invoices' = answer.invoices
          /\ tool' = [name |-> name, status |-> "done",
                      authenticatedUserId |-> authenticatedUserId,
                      user_id |-> args.user_id,
                      http |-> answer.http, response |-> answer.response]
    /\ UNCHANGED <<rules, stock_predictions, clock, call, replay, batch, rateLimitMap,
                   windows, limited, procs>>

----------------------------------------------------------------------------
(* The rate limiter of the HTTP server (rateLimitMiddleware).  A request   *)
(* is [userId, ip, path], where "" is a userId or an ip that is not set;   *)
(* app.use(rateLimitMiddleware) runs before the authentication of any      *)
(* route, so req.userId is not set when the limiter reads it.              *)

NoEntry == [present |-> FALSE, count |-> 0, resetTime |-> 0]

NoWindow == [resetTime |-> 0, firstAt |-> 0, requests |-> 0, passed |-> 0,
             answered |-> "none", before |-> 0]

NoRequest == [key |-> "none", path |-> "none", answered |-> "none"]

\* the addresses of the clients
Ips == {"10.0.0.1"}

\* req.userId || req.ip || 'anonymous'
clientKey(req) ==
    IF req.userId # "" THEN req.userId
    ELSE IF req.ip # "" THEN req.ip
    ELSE "anonymous"

RateKeys == Ips \cup {"anonymous"}

\* rateLimitMiddleware at instant now: the map after the request and whether
\* the request goes on to next()
rateLimitMiddleware(map, req, now) ==
    LET key    == clientKey(req)
        stored == map[key]
        entry  == IF ~stored.present \/ now > stored.resetTime
                  THEN [present |-> TRUE, count |-> 0, resetTime |-> now + RATE_WINDOW]
                  ELSE stored
        counted == [entry EXCEPT !.count = @ + 1]
    IN  IF req.path = "/health"
        THEN [map |-> map, key |-> key, answered |-> "next"]
        ELSE [map |-> [map EXCEPT ![key] = counted], key |-> key,
              answered |-> IF counted.count > RATE_LIMIT
                           THEN "Too Many Requests" ELSE "next"]

\* the cleanup that removes the entries of the open windows too
cleanup_AtResetTime(map, now) ==
    [k \in DOMAIN map |->
        IF map[k].present /\ now >= map[k].resetTime THEN NoEntry ELSE map[k]]

\* the callback of setInterval at instant now
cleanup(map, now) ==
    [k \in DOMAIN map |->
        IF map[k].present /\ now > map[k].resetTime THEN NoEntry ELSE map[k]]

\* what the windows of key have met after a request that the limiter
\* answered with the entry e
windowsAfter(w, e, answered, now) ==
    LET through == IF answered = "next" THEN 1 ELSE 0
    IN  IF w.requests > 0 /\ e.resetTime = w.resetTime
        THEN [w EXCEPT !.requests = @ + 1, !.passed = @ + through,
                       !.answered = answered]
        ELSE [resetTime |-> e.resetTime, firstAt |-> now, requests |-> 1,
              passed |-> through, answered |-> answered,
              before |-> IF w.requests > 0 THEN w.resetTime ELSE 0]

\* the instant at which the server starts, and the last instant modelled
RateStart == 20000 * TicksPerDay

RateEnd == RateStart + 2 * RATE_WINDOW + 1

\* a request reaches the rate limiter; a window takes at most two requests
\* more than it lets through
RateLimitedRequest(req) ==
    /\ \E r \in {rateLimitMiddleware(rateLimitMap, req, clock)} :
          /\ r.map[r.key].count <= RATE_LIMIT + 2
          /\ rateLimitMap' = r.map
          /\ windows' = IF req.path = "/health" THEN windows
                        ELSE [windows EXCEPT ![r.key] =
                                 windowsAfter(@, r.map[r.key], r.answered, clock)]
          /\ limited' = [key |-> r.key, path |-> req.path, answered |-> r.answered]
    /\ UNCHANGED <<storeVars, stock_predictions, invoice_drafts, clock, call, replay,
                   batch, tool, invoices, procs>>

\* the callback of setInterval runs
CleanupRateLimits ==
    /\ rateLimitMap' = cleanup(rateLimitMap, clock)
    /\ UNCHANGED <<storeVars, stock_predictions, invoice_drafts, clock, call, replay,
                   batch, tool, windows, limited, invoices, procs>>

\* the clock advances
Tick ==
    /\ clock < RateEnd
    /\ clock' = clock + 1
    /\ UNCHANGED <<storeVars, stock_predictions, invoice_drafts, call, replay, batch,
                   tool, serverVars>>

\* the requests that reach the limiter
RateRequests ==
    [userId : {""}, ip : {""} \cup Ips,
     path : {"/health", "/mcp/tools/call"}]

----------------------------------------------------------------------------
(* Requests that run step by step: finalize_draft_invoice                  *)
(* (finalizeDraftInvoice) and update_stock (SupabaseService.updateStock).  *)
(* A request in progress stands at the query it awaits, and the other      *)
(* requests run between two of its queries.  procs[i] is                   *)
(*   pc, name, input   the query awaited, the tool and its arguments       *)
(*   items, rest       the items of the draft it read, and those whose     *)
(*                     stock is still to update                            *)
(*   quantity          the quantity it read from products                  *)
(*   response          what it answered                                    *)
(*   faulted           whether a query of it failed                        *)
(*   concurrent        whether another request was in progress while it ran*)
(*   before            the tables when it started                          *)

Procs == {1, 2}

NoProc == [pc |-> "idle", name |-> "none", input |-> <<>>, items |-> <<>>, rest |-> <<>>,
           quantity |-> 0, response |-> NoCall, faulted |-> FALSE, concurrent |-> FALSE,
           before |-> <<>>]

InProgress(proc) == proc.pc \notin {"idle", "done"}

\* the tables that the requests read and write
Tables(prods, sls, invs, drafts) ==
    [products |-> prods, sales |-> sls, invoices |-> invs, drafts |-> drafts]

\* the next query of finalizeDraftInvoice, of the request proc, on the tables
\* at instant now: the request and the tables after it.  up: whether the
\* store answers the query.  No draft is created while these requests run,
\* so the draft of id draft.id is the one of the user and the session.
finalizeDraftInvoiceStep(proc, prods, sls, invs, drafts, now, up) ==
    LET input == proc.input
        p0    == [proc EXCEPT !.faulted = @ \/ ~up]
        same  == Tables(prods, sls, invs, drafts)
        throw(message) ==
            [proc |-> [p0 EXCEPT !.pc = "done", !.response = Thrown(message)]] @@ same
        found == DraftsOf(drafts, input.user_id, input.session_id)
        draft == CHOOSE d \in found : TRUE
        item  == Head(proc.rest)
        loop(rest) == IF rest = <<>> THEN "delete draft" ELSE "select stock"
    IN  CASE proc.pc = "fetch draft" ->
                 IF ~up \/ Cardinality(found) # 1 THEN throw("Draft invoice not found")
                 ELSE IF Len(drafts[draft].items) = 0
                 THEN throw("Cannot create invoice: no items in draft")
                 ELSE [proc |-> [p0 EXCEPT !.pc = "insert invoice",
                                           !.items = drafts[draft].items]] @@ same
          [] proc.pc = "insert invoice" ->
                 IF ~up THEN throw("Failed to create invoice")
                 ELSE [proc |-> [p0 EXCEPT !.pc = "insert items"],
                       invoices |-> insertInvoice(invs, input)] @@ same
          [] proc.pc = "insert items" ->
                 IF ~up THEN throw("Failed to create invoice items")
                 ELSE [proc |-> [p0 EXCEPT !.pc = loop(proc.items), !.rest = proc.items],
                       sales |-> insertInvoiceItems(sls, proc.items, input.user_id, now)]
                          @@ same
          [] proc.pc = "select stock" ->
                 IF up /\ item.product_id \in DOMAIN prods
                 THEN [proc |-> [p0 EXCEPT !.pc = "update stock",
                                           !.quantity = prods[item.product_id].quantity]]
                          @@ same
                 ELSE [proc |-> [p0 EXCEPT !.pc = loop(Tail(proc.rest)),
                                           !.rest = Tail(proc.rest)]] @@ same
          [] proc.pc = "update stock" ->
                 [proc |-> [p0 EXCEPT !.pc = loop(Tail(proc.rest)),
                                      !.rest = Tail(proc.rest), !.quantity = 0],
                  products |->
                      IF up /\ item.product_id \in DOMAIN prods
                      THEN [prods EXCEPT ![item.product_id].quantity =
                                             proc.quantity - item.quantity]
                      ELSE prods] @@ same
          [] proc.pc = "delete draft" ->
                 [proc |-> [p0 EXCEPT !.pc = "done", !.response = [status |-> "returned"]],
                  drafts |->
                      IF up
                      THEN SelectSeq(drafts,
                               LAMBDA d : ~(d.user_id = input.user_id
                                            /\ d.session_id = input.session_id))
                      ELSE drafts] @@ same

\* newQuantity of updateStock
newQuantity(current, quantity, operation) ==
    IF operation = "add" THEN current + quantity
    ELSE IF operation = "subtract" THEN current - quantity
    ELSE quantity

\* the next query of updateStock, of the request proc: the request and the
\* products after it.  up: whether the store answers the query.
updateStockStep(proc, prods, up) ==
    LET input == proc.input
        p0    == [proc EXCEPT !.faulted = @ \/ ~up]
        found == /\ up
                 /\ input.product_id \in DOMAIN prods
                 /\ prods[input.product_id].user_id = input.user_id
        throw == [proc |-> [p0 EXCEPT !.pc = "done", !.quantity = 0,
                                      !.response = Thrown("PGRST116")],
                  products |-> prods]
    IN  CASE proc.pc = "get product" ->
                 IF ~found THEN throw
                 ELSE [proc |-> [p0 EXCEPT !.pc = "update product",
                                           !.quantity = prods[input.product_id].quantity],
                       products |-> prods]
          [] proc.pc = "update product" ->
                 IF ~found THEN throw
                 ELSE [proc |-> [p0 EXCEPT !.pc = "done", !.quantity = 0,
                                           !.response = [status |-> "returned"]],
                       products |->
                           [prods EXCEPT ![input.product_id].quantity =
                               newQuantity(proc.quantity, input.quantity,
                                           input.operation)]]

\* the first query of a tool
FirstQuery(name) ==
    IF name = "finalize_draft_invoice" THEN "fetch draft" ELSE "get product"

\* the request i arrives: handleToolCall calls the service
StartRequest(i, name, input) ==
    /\ procs[i].pc = "idle"
    /\ procs' =
          [j \in Procs |->
              IF j = i
              THEN [NoProc EXCEPT
                       !.pc = FirstQuery(name), !.name = name, !.input = input,
                       !.concurrent = \E k \in Procs : InProgress(procs[k]),
                       !.before = Tables(products, sales, invoices, invoice_drafts)]
              ELSE IF InProgress(procs[j]) THEN [procs[j] EXCEPT !.concurrent = TRUE]
              ELSE procs[j]]
    /\ UNCHANGED <<storeVars, stock_predictions, invoice_drafts, clock, call, replay,
                   batch, tool, rateLimitMap, windows, limited, invoices>>

\* the store answers the query that the request i of finalize_draft_invoice
\* awaits
FinalizeDraftInvoiceStep(i, up) ==
    /\ procs[i].name = "finalize_draft_invoice"
    /\ InProgress(procs[i])
    /\ \E r \in {finalizeDraftInvoiceStep(procs[i], products, sales, invoices,
                                          invoice_drafts, clock, up)} :
          /\ procs' = [procs EXCEPT ![i] = r.proc]
          /\ products' = r.products
          /\ sales' = r.sales
          /\ invoices' = r.invoices
          /\ invoice_drafts' = r.drafts
    /\ UNCHANGED <<rules, stock_predictions, clock, call, replay, batch, tool,
                   rateLimitMap, windows, limited>>

\* the store answers the query that the request i of update_stock awaits
UpdateStockStep(i, up) ==
    /\ procs[i].name = "update_stock"
    /\ InProgress(procs[i])
    /\ \E r \in {updateStockStep(procs[i], products, up)} :
          /\ procs' = [procs EXCEPT ![i] = r.proc]
          /\ products' = r.products
    /\ UNCHANGED <<sales, rules, stock_predictions, invoice_drafts, clock, call, replay,
                   batch, tool, rateLimitMap, windows, limited, invoices>>

----------------------------------------------------------------------------
(* Initial states *)

\* sales of user 1, one paid invoice line a day
Sales(len, a, b, wk, hasRollup, endDay) ==
    [user_id |-> 1, len |-> len, a |-> a, b |-> b, wk |-> wk, hasRollup |-> hasRollup,
     endDay |-> endDay, lines |-> 1, lastStatus |-> "paid", sparse |-> FALSE,
     extra |-> <<>>]

\* a product of user 1
Product(p, quantity) ==
    [user_id |-> 1, name |-> p, quantity |-> quantity, low_stock_threshold |-> 50]

\* the table reorder_rules with the rules r[p] of user 1 and no other
RulesOfUser1(r) ==
    [k \in UserIds \X DOMAIN r |-> IF k[1] = 1 THEN r[k[2]] ELSE NoRule]

\* no saved forecast, no draft invoice, no request
InitRest ==
    /\ stock_predictions = <<>>
    /\ invoice_drafts = <<>>
    /\ call = NoCall
    /\ replay = NoCall
    /\ batch = Idle
    /\ tool = NoTool
    /\ rateLimitMap = [k \in RateKeys |-> NoEntry]
    /\ windows = [k \in RateKeys |-> NoWindow]
    /\ limited = NoRequest
    /\ invoices = <<>>
    /\ procs = [i \in Procs |-> NoProc]

\* Day 20000 is a Friday (2024-10-04) and day 20002 the Sunday after it.
\* the last tick of the Friday and the first tick of the Sunday
StartInstants == {20000 * TicksPerDay + TicksPerDay - 1, 20002 * TicksPerDay}

SeriesLengths == {0, 1, 6, 7, 13, 14, 29, 30}

\* units a day in the first and in the second half of the history
DailyQuantities == {<<0, 0>>, <<10, 10>>, <<0, 10>>, <<10, 0>>, <<5, 8>>, <<7, 1>>}

Stocks == {-5, 0, 20, 50, 20 * MaxDateDays}

Rules == {NoRule, Rule(0, 0), Rule(2, 45), Rule(20, 0)}

\* one product with any history, stock and rule
InitEngine ==
    /\ clock \in StartInstants
    /\ \E quantity \in Stocks : products = [p \in {1} |-> Product(p, quantity)]
    /\ \E len \in SeriesLengths, q \in DailyQuantities, wk \in {1, 2}, hasRollup \in BOOLEAN :
           sales = [p \in {1} |-> Sales(len, q[1], q[2], wk, hasRollup, DayOf(clock))]
    /\ \E r \in [{1} -> Rules] : rules = RulesOfUser1(r)
    /\ InitRest

\* one product that sells ten a day, or on weekends twice that
InitReplay ==
    /\ clock \in StartInstants
    /\ \E quantity \in {20, 50} : products = [p \in {1} |-> Product(p, quantity)]
    /\ \E len \in {0, 14, 30}, wk \in {1, 2} :
           sales = [p \in {1} |-> Sales(len, 10, 10, wk, TRUE, DayOf(clock))]
    /\ rules = RulesOfUser1([p \in {1} |-> NoRule])
    /\ InitRest

\* a product of the catalog: it sells nothing, or ten a day for a week
CatalogSales(endDay) ==
    {Sales(0, 0, 0, 1, TRUE, endDay), Sales(7, 10, 10, 1, TRUE, endDay)}

CatalogStocks == {20, 40, 100, 20 * MaxDateDays}

Init ==
    /\ clock = 20000 * TicksPerDay
    /\ \E quantity \in [1..NumProducts -> CatalogStocks] :
           products = [p \in 1..NumProducts |-> Product(p, quantity[p])]
    /\ sales \in [1..NumProducts -> CatalogSales(DayOf(clock))]
    /\ rules = RulesOfUser1([p \in 1..NumProducts |-> NoRule])
    /\ InitRest

\* a product of the catalog for the recommendations: it sells nothing, ten a
\* day or four a day
RecommendSales(endDay) ==
    {Sales(0, 0, 0, 1, TRUE, endDay), Sales(7, 10, 10, 1, TRUE, endDay),
     Sales(7, 4, 4, 1, TRUE, endDay)}

RecommendStocks == {20, 40, 100}

InitRecommend ==
    /\ clock = 20000 * TicksPerDay
    /\ \E quantity \in [1..NumProducts -> RecommendStocks] :
           products = [p \in 1..NumProducts |-> Product(p, quantity[p])]
    /\ sales \in [1..NumProducts -> RecommendSales(DayOf(clock))]
    /\ rules = RulesOfUser1([p \in 1..NumProducts |-> NoRule])
    /\ InitRest

\* the catalogs of two users: products 1..NumProducts of user 1, with these
\* quantities, and one product of user 2
TwoCatalogs(quantity) ==
    [p \in 1..(NumProducts + 1) |->
        IF p <= NumProducts THEN Product(p, quantity[p])
        ELSE [Product(p, 20) EXCEPT !.user_id = 2]]

\* every product sold ten a day for a week, to its owner's customers
TwoCatalogsSales(endDay) ==
    [p \in 1..(NumProducts + 1) |->
        [Sales(7, 10, 10, 1, TRUE, endDay) EXCEPT
            !.user_id = IF p <= NumProducts THEN 1 ELSE 2]]

\* the table reorder_rules with the same rule for the keys of `existing`
RulesFor(existing) ==
    [k \in UserIds \X (1..(NumProducts + 1)) |->
        IF k \in existing THEN Rule(20, 45) ELSE NoRule]

\* the rules there are at first: none, one of user 1 for the product 1, the
\* same with one of user 2 for that product, or one for every user and product
ExistingRules ==
    {{}, {<<1, 1>>}, {<<1, 1>>, <<2, 1>>}, UserIds \X (1..(NumProducts + 1))}

\* the arguments of a call of set_reorder_rule, but for user_id and product_id
RuleArgs ==
    [auto_reorder          : {UndefinedFlag, Given(FALSE)},
     reorder_point         : {Undefined, Given(8)},
     reorder_quantity      : {Undefined, Given(30)},
     preferred_supplier_id : {Undefined, Given(2)},
     lead_time_days        : {Undefined, Given(0), Given(3)},
     safety_stock          : {Undefined, Given(0), Given(20)}]

InitRules ==
    /\ clock = 20000 * TicksPerDay
    /\ products = TwoCatalogs([p \in 1..NumProducts |-> 20])
    /\ sales = TwoCatalogsSales(DayOf(clock))
    /\ \E existing \in ExistingRules : rules = RulesFor(existing)
    /\ InitRest

\* the stocks of the products of user 1: the first is low
ServiceStocks == [p \in 1..NumProducts |-> IF p = 1 THEN 20 ELSE 100]

\* the calls of set_reorder_rule: a full rule, and one without reorder_point
ServiceRuleArgs ==
    {[auto_reorder |-> Given(FALSE), reorder_point |-> point,
      reorder_quantity |-> Given(30), preferred_supplier_id |-> Undefined,
      lead_time_days |-> Given(3), safety_stock |-> Given(20)] :
        point \in {Undefined, Given(8)}}

InitService ==
    /\ clock = 20000 * TicksPerDay
    /\ products = TwoCatalogs(ServiceStocks)
    /\ sales = TwoCatalogsSales(DayOf(clock))
    /\ \E existing \in {{}, {<<1, 1>>}} : rules = RulesFor(existing)
    /\ InitRest

HistoryLengths == {0, 6, 7, 14, 30}

\* units a day in the first and in the second half of the history: steady,
\* rising by 60%, rising and falling by exactly 15%
HistoryQuantities == {<<10, 10>>, <<5, 8>>, <<20, 23>>, <<20, 17>>}

\* what the weekends sell, as a multiple of a weekday: nothing, the same, twice
WeekendFactors == {0, 1, 2}

\* one product whose history is in the rollups or in the invoices only, the
\* sale of a day on one or two invoice lines, the last invoice paid in full
\* or in part, the days without sales with or without rows
InitHistory ==
    /\ clock \in StartInstants
    /\ products = [p \in {1} |-> Product(p, 50)]
    /\ \E len \in HistoryLengths, q \in HistoryQuantities, wk \in WeekendFactors,
          hasRollup \in BOOLEAN, lines \in {1, 2}, lastStatus \in {"paid", "partial"} :
          \E sparse \in (IF wk = 0 THEN BOOLEAN ELSE {FALSE}) :
           sales = [p \in {1} |->
                       [Sales(len, q[1], q[2], wk, hasRollup, DayOf(clock))
                           EXCEPT !.lines = lines, !.lastStatus = lastStatus,
                                  !.sparse = sparse]]
    /\ rules = RulesOfUser1([p \in {1} |-> NoRule])
    /\ InitRest

\* units a day in the first and in the second half of the history: steady,
\* falling, rising
TrendQuantities == {<<10, 10>>, <<10, 4>>, <<4, 10>>}

\* one product with a steady, falling or rising history
InitTrend ==
    /\ clock \in StartInstants
    /\ \E quantity \in {20, 100} : products = [p \in {1} |-> Product(p, quantity)]
    /\ \E len \in {0, 14, 30}, q \in TrendQuantities :
           sales = [p \in {1} |-> Sales(len, q[1], q[2], 1, TRUE, DayOf(clock))]
    /\ rules = RulesOfUser1([p \in {1} |-> NoRule])
    /\ InitRest

\* the sessions of the conversational orders
SessionIds == {1}

\* the products that the orders name: one of user 1 and the one of user 2
OrderProductIds == {1, NumProducts + 1}

\* the arguments of a call of a tool of the conversational orders; an item is
\* added by the name of a product, with or without its id
OrderArgs(name) ==
    IF name = "add_invoice_item"
    THEN {[user_id |-> user_id, session_id |-> session_id,
           product_id |-> IF withId THEN Given(q) ELSE Undefined,
           product_name |-> q, quantity |-> 1] :
              user_id \in {Undefined} \cup {Given(u) : u \in UserIds},
              session_id \in SessionIds,
              withId \in BOOLEAN,
              q \in OrderProductIds}
    ELSE [user_id : {Undefined} \cup {Given(u) : u \in UserIds},
          session_id : SessionIds,
          product_id : {Undefined},
          product_name : {0},
          quantity : {0}]

OrderTools == {"init_draft_invoice", "add_invoice_item", "finalize_draft_invoice"}

\* two users with their products, and no draft invoice
InitOrders ==
    /\ clock = 20000 * TicksPerDay
    /\ products = TwoCatalogs(ServiceStocks)
    /\ sales = TwoCatalogsSales(DayOf(clock) - 1)
    /\ rules = RulesFor({})
    /\ InitRest

\* the calls of the two tools: user 1 finalizes the draft of the session, and
\* adds to or takes from the stock of product 1
ConcurrentInputs(name) ==
    IF name = "finalize_draft_invoice"
    THEN [user_id : {1}, session_id : SessionIds]
    ELSE [user_id : {1}, product_id : {1}, quantity : {3},
          operation : {"add", "subtract"}]

ConcurrentTools == {"finalize_draft_invoice", "update_stock"}

\* the table invoice_drafts when the requests start: no draft, an empty
\* draft, a draft of one item, a draft of two items
DraftItem(p, quantity) == [product_id |-> p, product_name |-> p, quantity |-> quantity]

ConcurrentDrafts ==
    {<<>>} \cup
    {<<[user_id |-> 1, session_id |-> s, items |-> items]>> :
        s \in SessionIds,
        items \in {<<>>, <<DraftItem(1, 1)>>, <<DraftItem(1, 2), DraftItem(2, 1)>>}}

\* a draft of user 1, and no request yet
InitConcurrent ==
    /\ clock = 20000 * TicksPerDay
    /\ products = TwoCatalogs(ServiceStocks)
    /\ sales = TwoCatalogsSales(DayOf(clock) - 1)
    /\ rules = RulesFor({})
    /\ stock_predictions = <<>>
    /\ invoice_drafts \in ConcurrentDrafts
    /\ call = NoCall
    /\ replay = NoCall
    /\ batch = Idle
    /\ tool = NoTool
    /\ rateLimitMap = [k \in RateKeys |-> NoEntry]
    /\ windows = [k \in RateKeys |-> NoWindow]
    /\ limited = NoRequest
    /\ invoices = <<>>
    /\ procs = [i \in Procs |-> NoProc]

\* the server starts: no client has sent a request
InitRate ==
    /\ clock = RateStart
    /\ products = TwoCatalogs(ServiceStocks)
    /\ sales = TwoCatalogsSales(DayOf(clock) - 1)
    /\ rules = RulesFor({})
    /\ InitRest

----------------------------------------------------------------------------
(* Specifications *)

NextEngine == \E userId \in UserIds, p \in RequestIds : GetProductForecast(userId, p)

NextReplay ==
    \/ \E userId \in UserIds, p \in RequestIds : GetProductForecast(userId, p)
    \/ ReplayProductForecast

Next ==
    \/ \E userId \in UserIds, onlyLowStock \in BOOLEAN, fetchOk \in BOOLEAN :
          StartRestockRecommendations(userId, onlyLowStock, fetchOk)
    \/ ForecastNextProduct

NextRecommend ==
    \/ \E userId \in UserIds, fetchOk \in BOOLEAN :
          GetRestockRecommendations(userId, fetchOk)
    \/ ForecastNextProduct

NextRules ==
    \E userId \in UserIds, p \in DOMAIN products, args \in RuleArgs, up \in BOOLEAN :
        SetReorderRule(userId, p, args, up)

\* One request at a time, each kind at most once: a request for a catalog,
\* then a request for one product, and a rule set or a forecast saved beside
\* one of the two.
NextService ==
    \/ /\ batch.pc # "loop"
       /\ tool.status = "none"
       /\ \E userId \in UserIds, p \in RequestIds : GetProductForecast(userId, p)
    \/ /\ call.status = "none"
       /\ \E userId \in UserIds, onlyLowStock \in BOOLEAN, fetchOk \in BOOLEAN :
             StartRestockRecommendations(userId, onlyLowStock, fetchOk)
    \/ ForecastNextProduct
    \/ /\ call.status = "none" \/ batch.pc = "idle"
       /\ batch.pc # "loop"
       /\ \E userId \in UserIds, p \in DOMAIN products, args \in ServiceRuleArgs,
             up \in BOOLEAN :
             SetReorderRule(userId, p, args, up)
    \/ /\ call.status = "none" \/ batch.pc = "idle"
       /\ batch.pc # "loop"
       /\ \E userId \in UserIds, forecast \in ReturnedForecasts, up \in BOOLEAN :
             SaveForecast(userId, forecast, up)

NextTrend ==
    \E userId \in UserIds, p \in RequestIds, period_days \in {Undefined, Given(7)} :
        AnalyzeSalesTrend(userId, p, period_days)

NextOrders ==
    \E authenticatedUserId \in UserIds, name \in OrderTools, up \in BOOLEAN :
        \E args \in OrderArgs(name) :
            PostToolsCall(authenticatedUserId, name, args, up)

NextConcurrent ==
    \/ \E i \in Procs, name \in ConcurrentTools :
          \E input \in ConcurrentInputs(name) : StartRequest(i, name, input)
    \/ \E i \in Procs, up \in BOOLEAN : FinalizeDraftInvoiceStep(i, up)
    \/ \E i \in Procs, up \in BOOLEAN : UpdateStockStep(i, up)

NextRate ==
    \/ \E req \in RateRequests : RateLimitedRequest(req)
    \/ CleanupRateLimits
    \/ Tick

\* the forecast of one product, over all histories, stocks and rules
SpecEngine == InitEngine /\ [][NextEngine]_vars

\* one forecast and its replay
SpecReplay == InitReplay /\ [][NextReplay]_vars

\* getRestockRecommendations on a catalog of products
Spec == Init /\ [][Next]_vars

\* the tool get_restock_recommendations on a catalog of products
SpecRecommend == InitRecommend /\ [][NextRecommend]_vars

\* the tool set_reorder_rule on the rules of two users
SpecRules == InitRules /\ [][NextRules]_vars

\* the forecast of one product, over the ways its sales are stored
SpecHistory == InitHistory /\ [][NextEngine]_vars

\* the tool analyze_sales_trend on one product
SpecTrend == InitTrend /\ [][NextTrend]_vars

\* the conversational orders of two users through POST /mcp/tools/call
SpecOrders == InitOrders /\ [][NextOrders]_vars

\* the forecasting service with two users: forecasts of one product and of a
\* catalog, a rule set, a forecast saved
SpecService == InitService /\ [][NextService]_vars

\* two requests of finalize_draft_invoice or update_stock, one query at a
\* time
SpecConcurrent == InitConcurrent /\ [][NextConcurrent]_vars

\* the rate limiter of the server, its cleanup and the clock
SpecRate == InitRate /\ [][NextRate]_vars

----------------------------------------------------------------------------
(* Claims on getRestockRecommendations (specification Spec) *)

\* the product ids of a list of forecasts
ForecastIds(forecasts) == {forecasts[i].product_id : i \in 1..Len(forecasts)}

\* the products of a list of ids
IdsOf(ids) == {ids[i] : i \in 1..Len(ids)}

\* the place of product p in the list the products query returned
FetchedAt(p) == CHOOSE i \in 1..Len(batch.fetched) : batch.fetched[i] = p

\* C1: getRestockRecommendations never fails because the forecast of one
\* product fails.  Once the products are fetched the request returns, whatever
\* subset of the forecasts threw, and the list it returns holds exactly one
\* forecast for each product whose forecast succeeded and none for the others.
C1_BatchIsolatesFailures ==
    batch.pc = "done" =>
        /\ batch.ret.status = "thrown" =>
              batch.fetched = <<>> /\ batch.failed = {}
        /\ batch.ret.status = "returned" =>
              /\ ForecastIds(batch.ret.value) = IdsOf(batch.fetched) \ batch.failed
              /\ Len(batch.ret.value) = Cardinality(ForecastIds(batch.ret.value))

\* a request in which one forecast threw and another was returned
C1_Witness ==
    /\ batch.pc = "done"
    /\ batch.ret.status = "returned"
    /\ batch.failed # {}
    /\ batch.ret.value # <<>>

\* C4 as claimed: sorted by urgency rank, and within one urgency by
\* days_until_runout ascending.
C4_SortedWithTieBreak ==
    (batch.pc = "done" /\ batch.ret.status = "returned") =>
        \A i, j \in 1..Len(batch.ret.value) :
            i < j =>
                LET a == batch.ret.value[i]
                    b == batch.ret.value[j]
                IN  \/ urgencyOrder(a.urgency) < urgencyOrder(b.urgency)
                    \/ /\ a.urgency = b.urgency
                       /\ a.days_until_runout <= b.days_until_runout

\* C4 as amended: the returned list is sorted ascending by urgency rank, and
\* forecasts of the same urgency keep the order in which the products query
\* returned their products.
C4_SortedByUrgencyStable ==
    (batch.pc = "done" /\ batch.ret.status = "returned") =>
        \A i, j \in 1..Len(batch.ret.value) :
            i < j =>
                LET a == batch.ret.value[i]
                    b == batch.ret.value[j]
                IN  \/ urgencyOrder(a.urgency) < urgencyOrder(b.urgency)
                    \/ /\ a.urgency = b.urgency
                       /\ FetchedAt(a.product_id) < FetchedAt(b.product_id)

\* a returned list with two forecasts of one urgency of which the first runs
\* out later than the second
C4_Witness ==
    /\ batch.pc = "done"
    /\ batch.ret.status = "returned"
    /\ \E i, j \in 1..Len(batch.ret.value) :
          /\ i < j
          /\ batch.ret.value[i].urgency = batch.ret.value[j].urgency
          /\ batch.ret.value[i].days_until_runout > batch.ret.value[j].days_until_runout

----------------------------------------------------------------------------
(* Claims on one forecast (specification SpecEngine) *)

Returned == call.status = "returned"

\* C2: the urgency of a StockForecast is a step function of its
\* days_until_runout alone: critical up to 3 days, high up to 7, medium up to
\* 14, low beyond, whatever the stock, the history, the rule and the clock.
C2_UrgencyStepFunction ==
    Returned =>
        LET d == call.forecast.days_until_runout
            u == call.forecast.urgency
        IN  /\ d <= 3 => u = "critical"
            /\ (3 < d /\ d <= 7) => u = "high"
            /\ (7 < d /\ d <= 14) => u = "medium"
            /\ 14 < d => u = "low"

\* a forecast on the boundary of a tier
C2_Witness ==
    /\ Returned
    /\ call.forecast.days_until_runout = 7
    /\ call.forecast.urgency = "high"

\* C3: should_reorder is true exactly when days_until_runout is at most the
\* lead time the forecast was computed with; the urgency has no part in it.
C3_ShouldReorderByLeadTime ==
    Returned =>
        (call.forecast.should_reorder
            <=> call.forecast.days_until_runout <= call.leadTimeDays)

\* a forecast of low urgency that says to reorder
C3_Witness ==
    /\ Returned
    /\ call.forecast.urgency = "low"
    /\ call.forecast.should_reorder

\* C5: the suggested reorder quantity is the larger of 10 and the least
\* integer that is at least adjustedDailyRate * (leadTimeDays +
\* safetyStockDays).
C5_ReorderQuantity ==
    Returned =>
        LET q    == call.result.suggestedReorderQuantity
            rate == call.result.dailyAverageSales
            days == call.leadTimeDays + call.safetyStockDays
        IN  /\ call.forecast.suggested_reorder_quantity = q
            /\ q >= 10
            /\ q * rate.d >= rate.n * days
            /\ q > 10 => (q - 1) * rate.d < rate.n * days

\* a quantity above the minimum that the ceiling rounded up
C5_Witness ==
    /\ Returned
    /\ call.result.suggestedReorderQuantity > 10
    /\ call.result.suggestedReorderQuantity * call.result.dailyAverageSales.d
           > call.result.dailyAverageSales.n * (call.leadTimeDays + call.safetyStockDays)

\* C6: the confidence (in hundredths, rounded up) is 10 for an empty series,
\* 40 for 1 to 6 points, 60 for 7 to 29 points and, for 30 points or more,
\* 95 - 35 * CV kept within 60..95, with CV = stdDev / mean, or 1 when the mean
\* is 0.  With n points of sum S and sum of squares Q, CV^2 = (n*Q - S*S)/(S*S).
C6_ConfidenceTiers ==
    Returned =>
        LET n    == Len(call.salesHistory)
            S    == SumSeq(Quantities(call.salesHistory))
            V    == n * SumSquares(call.salesHistory) - S * S
            conf == call.forecast.confidence
            drop == 95 - conf
        IN  /\ conf = call.result.confidence
            /\ 10 <= conf /\ conf <= 95
            /\ n = 0 => conf = 10
            /\ (1 <= n /\ n <= 6) => conf = 40
            /\ (7 <= n /\ n <= 29) => conf = 60
            /\ (30 <= n /\ S = 0) => conf = 60
            /\ (30 <= n /\ S > 0) =>
                  /\ 60 <= conf
                  /\ (drop * S) * (drop * S) <= 35 * 35 * V
                  /\ conf > 60 => ((drop + 1) * S) * ((drop + 1) * S) > 35 * 35 * V

\* a series of 30 points whose confidence lies strictly between the clamps
C6_Witness ==
    /\ Returned
    /\ Len(call.salesHistory) >= 30
    /\ 60 < call.forecast.confidence
    /\ call.forecast.confidence < 95

\* C7: days_until_runout is an integer >= 0 in every StockForecast, also for
\* zero and negative stock; with zero average sales it is the sentinel of
\* 9999 days, less the day that the clock may have begun.
C7_DaysUntilRunoutNonNegative ==
    Returned =>
        /\ call.forecast.days_until_runout \in Nat
        /\ call.forecast.days_until_runout <= 2 * MaxDateDays
        /\ call.result.dailyAverageSales.n = 0 =>
              call.forecast.days_until_runout \in {SentinelDays - 1, SentinelDays}

\* a forecast for a negative stock of a product that sells
C7_Witness ==
    /\ Returned
    /\ call.forecast.current_stock < 0
    /\ call.result.dailyAverageSales.n > 0
    /\ call.forecast.days_until_runout = 0

\* the sales history that the forecast of `call` read
HistoryOfCall ==
    getSalesHistory(call.userId, sales[call.product], call.now0,
                    "history" \notin call.faults, call.order)

\* C8: for a product with an empty sales series, whatever its stock, the
\* forecast is produced without throwing, with confidence 0.1, daily average
\* sales 0, seasonal factor 1, the sentinel of 9999 days, urgency low and
\* should_reorder false.
C8_EmptySeries ==
    (/\ call.status # "none"
     /\ InCatalog(products, call.userId, call.product)
     /\ "products" \notin call.faults
     /\ HistoryOfCall = <<>>) =>
        /\ Returned
        /\ call.forecast.confidence = 10
        /\ call.result.dailyAverageSales = RInt(0)
        /\ call.result.seasonalFactor = RInt(1)
        /\ call.forecast.days_until_runout \in {SentinelDays - 1, SentinelDays}
        /\ call.forecast.urgency = "low"
        /\ ~call.forecast.should_reorder

\* the forecast of a product with 20 in stock and no sales
C8_Witness ==
    /\ Returned
    /\ call.salesHistory = <<>>
    /\ call.faults = {}
    /\ call.forecast.current_stock = 20

\* C10 as claimed: 30 consecutive days of 10 units, stock 50, lead time 7 and
\* safety stock 3 days give rate 10 (seasonal factor 1, trend stable), 5 days
\* until runout, 100 to reorder, urgency high and should_reorder true.
C10_ScenarioA ==
    (/\ Returned
     /\ Len(call.salesHistory) = 30
     /\ \A i \in 1..30 : call.salesHistory[i].quantity = 10
     /\ call.forecast.current_stock = 50
     /\ call.leadTimeDays = 7
     /\ call.safetyStockDays = 3) =>
        /\ call.result.dailyAverageSales = RInt(10)
        /\ call.result.seasonalFactor = RInt(1)
        /\ call.result.trend = "stable"
        /\ call.forecast.days_until_runout = 5
        /\ call.forecast.suggested_reorder_quantity = 100
        /\ call.forecast.urgency = "high"
        /\ call.forecast.should_reorder

\* the rule of the product of `call`, as the forecast read it
RuleOfCall == rules[<<call.userId, call.product>>]

\* C22 as claimed: with a rule, the forecast uses the lead_time_days of the
\* rule, 0 included, in the reorder quantity and in should_reorder; without a
\* rule it uses 7 days.
C22_LeadTimeOfRule ==
    (Returned /\ "rules" \notin call.faults) =>
        LET lead == IF RuleOfCall.exists THEN RuleOfCall.lead_time_days
                    ELSE DefaultLeadTimeDays
        IN  /\ call.leadTimeDays = lead
            /\ call.forecast.should_reorder = (call.forecast.days_until_runout <= lead)
            /\ call.forecast.suggested_reorder_quantity =
                   Max(CeilDiv(call.result.dailyAverageSales.n
                                   * (lead + call.safetyStockDays),
                               call.result.dailyAverageSales.d),
                       MinReorderQuantity)

\* C23 as claimed: with a rule, the safety stock days of the forecast are
\* ceil(safety_stock / 10), so 0 for a safety stock of 0; without a rule
\* they are 3.
C23_SafetyStockDaysOfRule ==
    (Returned /\ "rules" \notin call.faults) =>
        call.safetyStockDays =
            IF RuleOfCall.exists THEN CeilDiv(RuleOfCall.safety_stock, 10)
            ELSE DefaultSafetyStockDays

\* the mean quantity of the points of data on weekday w, a rational
MeanOn(data, w) ==
    LET on == {i \in 1..Len(data) : GetDay(data[i].date) = w}
        total[k \in 0..Len(data)] ==
            IF k = 0 THEN 0
            ELSE total[k - 1] + (IF k \in on THEN data[k].quantity ELSE 0)
    IN  Rat(total[Len(data)], Cardinality(on))

\* the instants at which the forecast of `call` may have read the clock
ClockReadsOfCall == call.now0..(call.now0 + MaxSkew)

\* C24: the seasonal factor is 1 for fewer than 14 points; else it is the
\* mean of the points on today's weekday divided by the mean of the seven
\* weekday means, and 1 when that mean is 0.  So with weekends that sell
\* twice what the weekdays sell, the factor is above 1 on a Saturday or a
\* Sunday and below 1 on the other days.
C24_SeasonalFactor ==
    Returned =>
        \E t \in ClockReadsOfCall :
            LET data    == call.salesHistory
                today   == GetDay(DayOf(t))
                overall == RDiv(RSumSeq([w \in 1..7 |-> MeanOn(data, w - 1)]), RInt(7))
                h       == sales[call.product]
            IN  /\ Len(data) < 14 => call.result.seasonalFactor = RInt(1)
                /\ (Len(data) >= 14 /\ \A w \in 0..6 : \E i \in 1..Len(data) :
                                                        GetDay(data[i].date) = w) =>
                       call.result.seasonalFactor =
                           IF RPos(overall) THEN RDiv(MeanOn(data, today), overall)
                           ELSE RInt(1)
                /\ (Len(data) >= 14 /\ h.wk = 2 /\ h.a = h.b /\ h.a > 0) =>
                       IF IsWeekend(DayOf(t))
                       THEN RLess(RInt(1), call.result.seasonalFactor)
                       ELSE RLess(call.result.seasonalFactor, RInt(1))

\* a forecast on a weekend day from a month of sales that double on weekends
C24_Witness ==
    /\ Returned
    /\ Len(call.salesHistory) = 30
    /\ sales[call.product].wk = 2
    /\ sales[call.product].a = 10
    /\ sales[call.product].b = 10
    /\ RLess(RInt(1), call.result.seasonalFactor)

----------------------------------------------------------------------------
(* Claims on two runs of one forecast (specification SpecReplay) *)

\* C9 as claimed: two forecasts of the same series, stock and rule from the
\* same instant return the same result.
C9_SameNowSameResult ==
    (call.status = "returned" /\ replay.status = "returned") =>
        /\ replay.forecast = call.forecast
        /\ replay.result = call.result

\* C21 as claimed: with a rate above 0 and a stock of 0 or more, the
\* days_until_runout of the forecast is floor(current stock / rate): the
\* time that passes between the clock reads of one forecast takes no day off.
C21_RunoutIsFloorOfStockByRate ==
    (/\ Returned
     /\ RPos(call.result.dailyAverageSales)
     /\ call.forecast.current_stock >= 0) =>
        call.forecast.days_until_runout =
            FloorDiv(call.forecast.current_stock * call.result.dailyAverageSales.d,
                     call.result.dailyAverageSales.n)

----------------------------------------------------------------------------
(* Claims on the tool get_restock_recommendations (specification           *)
(* SpecRecommend)                                                          *)

Recommended ==
    /\ tool.name = "get_restock_recommendations"
    /\ tool.status = "done"
    /\ tool.response.status = "returned"

\* the least urgent rank that a minimum urgency lets through
FilterRank(urgency_filter) ==
    IF urgency_filter = "critical" THEN 0
    ELSE IF urgency_filter \in {"high", ""} THEN 1
    ELSE IF urgency_filter = "medium" THEN 2
    ELSE 3

\* s is t with some elements left out: the elements of s are in t, in the
\* order of t (the forecasts of a list differ in their product_id)
IsSubSeq(s, t) ==
    \E f \in [1..Len(s) -> 1..Len(t)] :
        /\ \A i \in 1..Len(s) : s[i] = t[f[i]]
        /\ \A i, j \in 1..Len(s) : i < j => f[i] < f[j]

\* C11 as claimed: the tool returns only forecasts at least as urgent as the
\* minimum urgency asked for, in the order of the aggregator, and at most
\* `limit` of them for every limit supplied, at most 20 when none is.
C11_FilterOrderLimit ==
    Recommended =>
        LET value == tool.response.value
            limit == tool.args.limit
        IN  /\ \A i \in 1..Len(value) :
                  urgencyOrder(value[i].urgency) <= FilterRank(tool.args.urgency_filter)
            /\ IsSubSeq(value, tool.recommendations.value)
            /\ Len(value) <= (IF limit.given THEN limit.value ELSE DefaultLimit)

\* C11 for every limit but 0, and with what the tool must not leave out: a
\* forecast that passes the filter is returned unless the limit is reached.
C11_HoldsButForLimitZero ==
    (Recommended /\ tool.args.limit # Given(0)) =>
        LET value == tool.response.value
            limit == tool.args.limit
        IN  /\ \A i \in 1..Len(value) :
                  urgencyOrder(value[i].urgency) <= FilterRank(tool.args.urgency_filter)
            /\ IsSubSeq(value, tool.recommendations.value)
            /\ Len(value) <= (IF limit.given THEN limit.value ELSE DefaultLimit)
            /\ \A i \in 1..Len(tool.recommendations.value) :
                  LET r == tool.recommendations.value[i]
                  IN  (/\ urgencyOrder(r.urgency) <= FilterRank(tool.args.urgency_filter)
                       /\ Len(value) < NumberOr(limit, DefaultLimit))
                          => \E j \in 1..Len(value) : value[j] = r

----------------------------------------------------------------------------
(* Claims on the tool set_reorder_rule (specification SpecRules) *)

RuleSet == tool.name = "set_reorder_rule" /\ tool.status = "done"

\* the key of the rule that the call of `tool` names
RuleKey == <<tool.userId, tool.product>>

\* C12 as claimed: a call of set_reorder_rule for a user and product that
\* have a rule leaves every optional field that the call omits
\* (lead_time_days, safety_stock, auto_reorder, preferred_supplier_id) as it
\* was stored, and leaves the rules of every other user and product alone.
C12_UpdateKeepsOmittedFields ==
    (/\ RuleSet
     /\ tool.response.status = "returned"
     /\ tool.rulesBefore[RuleKey].exists) =>
        /\ \A f \in {"lead_time_days", "safety_stock", "auto_reorder",
                      "preferred_supplier_id"} :
              ~tool.args[f].given => rules[RuleKey][f] = tool.rulesBefore[RuleKey][f]
        /\ \A k \in DOMAIN rules : k # RuleKey => rules[k] = tool.rulesBefore[k]

----------------------------------------------------------------------------
(* Claims on the forecasting service (specification SpecService) *)

\* C14: forecasting is read-only.  No step changes a product; the rules
\* change only in a call of set_reorder_rule and the stored predictions only
\* in a call of saveForecast; a step of get_product_forecast or of
\* getRestockRecommendations leaves the rules and the stored predictions as
\* they were.
C14_ForecastingReadOnly ==
    [][/\ products' = products
       /\ rules' # rules => tool' # tool /\ tool'.name = "set_reorder_rule"
       /\ stock_predictions' # stock_predictions =>
              tool' # tool /\ tool'.name = "save_forecast"
       /\ (call' # call \/ batch' # batch) =>
              rules' = rules /\ stock_predictions' = stock_predictions]_vars

\* forecasts of one product and of a catalog were returned, and no
\* prediction is stored
C14_Witness ==
    /\ call.status = "returned"
    /\ batch.pc = "done"
    /\ batch.ret.status = "returned"
    /\ batch.ret.value # <<>>
    /\ stock_predictions = <<>>

\* C15: a forecast asked for a product that is not in the tables, or that
\* another user owns, throws 'Product not found' and returns no forecast; in
\* the loop of getRestockRecommendations a product whose forecast throws is
\* left out, and every other product fetched is forecast and returned.
C15_ProductNotFound ==
    /\ (/\ call.status # "none"
        /\ \/ call.product \notin DOMAIN products
           \/ products[call.product].user_id # call.userId) =>
            call.status = "thrown" /\ call.error = "Product not found"
    /\ (batch.pc = "done" /\ batch.failed # {}) =>
            /\ batch.ret.status = "returned"
            /\ \A i \in 1..Len(batch.fetched) :
                  batch.fetched[i] \in ForecastIds(batch.ret.value)
                      <=> batch.fetched[i] \notin batch.failed

\* user 1 asked for the forecast of the product of user 2, and in a request
\* for a catalog one product was not found when the others were forecast
C15_Witness ==
    /\ call.status = "thrown"
    /\ call.userId = 1
    /\ call.product \in DOMAIN products
    /\ products[call.product].user_id = 2
    /\ batch.pc = "done"
    /\ batch.failed # {}
    /\ batch.ret.status = "returned"
    /\ batch.ret.value # <<>>

----------------------------------------------------------------------------
(* Claims on the sales history (specification SpecHistory) *)

\* C16 as claimed: the seasonal factor of every forecast is greater than 0.
C16_SeasonalFactorPositive ==
    Returned => RPos(call.result.seasonalFactor)

\* C17 as claimed: the sales history that a forecast is computed from is in
\* ascending order of date, whether it was read from the daily rollups or
\* built from the invoice lines, in whatever order the store returned them.
C17_HistoryAscending ==
    Returned =>
        \A i, j \in 1..Len(call.salesHistory) :
            i < j => call.salesHistory[i].date < call.salesHistory[j].date

\* the rollups of the product that the request of `call` is to use
RollupsOfCall ==
    SelectSeq(sales_history_daily(sales[call.product]),
        LAMBDA row : /\ row.user_id = call.userId
                     /\ row.date >= DayOf(call.now0) - LookbackDays)

\* the invoice lines of the product that the fallback is to use: those of the
\* user's invoices that are paid or partial, in the lookback window
LinesOfCall ==
    SelectSeq(invoice_items(sales[call.product]),
        LAMBDA item : /\ item.user_id = call.userId
                      /\ item.status \in {"paid", "partial"}
                      /\ item.created_at >= call.now0 - LookbackDays * TicksPerDay)

\* C18 as claimed: the sales history is made of the daily rollups of the
\* lookback window when there is one; when there is none it holds, for each
\* day with a line of a paid or partial invoice of the user in the window,
\* one point whose quantity is the sum of the lines of that day.
C18_RollupsElsePaidOrPartial ==
    (Returned /\ "history" \notin call.faults) =>
        LET points == {call.salesHistory[i] : i \in 1..Len(call.salesHistory)}
        IN  /\ Cardinality({pt.date : pt \in points}) = Len(call.salesHistory)
            /\ IF RollupsOfCall # <<>>
               THEN points = {[date |-> RollupsOfCall[i].date,
                               quantity |-> RollupsOfCall[i].quantity_sold] :
                                  i \in 1..Len(RollupsOfCall)}
               ELSE points =
                      {[date |-> d,
                        quantity |-> SumSeq(Quantities(SelectSeq(LinesOfCall,
                                        LAMBDA item : DayOf(item.created_at) = d)))] :
                          d \in {DayOf(LinesOfCall[i].created_at) :
                                    i \in 1..Len(LinesOfCall)}}

----------------------------------------------------------------------------
(* Claims on the tool analyze_sales_trend (specification SpecTrend) *)

\* C20 as claimed: the trend that analyze_sales_trend returns is the one that
\* detectTrend finds in the sales series of the product: increasing, stable
\* or decreasing.
C20_TrendAsDetected ==
    (/\ tool.name = "analyze_sales_trend"
     /\ tool.status = "done"
     /\ tool.response.status = "returned") =>
        /\ tool.response.value.trend \in {"increasing", "stable", "decreasing"}
        /\ tool.response.value.trend = tool.detected

\* C26 as claimed: a day without a point in the history of a product counts
\* as a day that sold nothing: the rate and the reorder quantity of the
\* forecast are those of the history with these days present at quantity 0.
C26_GapsAreZeroSales ==
    (Returned /\ "history" \notin call.faults) =>
        \E t \in ClockReadsOfCall :
            LET filled == getSalesHistory(call.userId,
                              [sales[call.product] EXCEPT !.sparse = FALSE],
                              call.now0, TRUE, call.order)
                result == predictStockNeeds(filled, call.forecast.current_stock,
                              call.leadTimeDays, call.safetyStockDays, t, t)
            IN  /\ call.result.dailyAverageSales = result.dailyAverageSales
                /\ call.forecast.suggested_reorder_quantity =
                       result.suggestedReorderQuantity

\* the sum of the quantities of the points i..j of data
SumOf(data, i, j) ==
    LET total[k \in (i - 1)..j] ==
            IF k = i - 1 THEN 0 ELSE total[k - 1] + data[k].quantity
    IN  total[j]

\* C25: the trend is stable for fewer than 7 points; else, with the first
\* floor(n/2) points as first half and the rest as second half, it is
\* increasing when the mean of the second half is more than 15% above that
\* of the first, decreasing when it is more than 15% below it and stable
\* otherwise, at exactly 15% too; and the rate is the moving average times
\* the seasonal factor times 1.15, 0.85 or 1.
C25_TrendByHalves ==
    Returned =>
        LET data   == call.salesHistory
            n      == Len(data)
            half   == n \div 2
            first  == SumOf(data, 1, half) * (n - half)
            second == SumOf(data, half + 1, n) * half
            trend  == IF n < 7 THEN "stable"
                      ELSE IF 100 * second > 115 * first THEN "increasing"
                      ELSE IF 100 * second < 85 * first THEN "decreasing"
                      ELSE "stable"
            multiplier == IF trend = "increasing" THEN Rat(115, 100)
                          ELSE IF trend = "decreasing" THEN Rat(85, 100)
                          ELSE RInt(1)
        IN  /\ call.result.trend = trend
            /\ call.result.dailyAverageSales =
                   RMul(RMul(Rat(SumOf(data, Max(1, n - 6), n), Max(1, Min(n, 7))),
                             call.result.seasonalFactor),
                        multiplier)

\* a forecast from 14 days whose second week sold exactly 15% more than the
\* first
C25_Witness ==
    /\ Returned
    /\ Len(call.salesHistory) = 14
    /\ \A i \in 1..7 : call.salesHistory[i].quantity = 20
    /\ \A i \in 8..14 : call.salesHistory[i].quantity = 23
    /\ call.result.trend = "stable"

----------------------------------------------------------------------------
(* Claims on POST /mcp/tools/call (specification SpecOrders) *)

\* C19 as claimed: a request whose user_id is not the authenticated user is
\* answered 403 and changes nothing; and no request changes a row of another
\* user: a product whose row changes, a draft that is created, changed or
\* deleted and an invoice line that is created belong to the authenticated
\* user.
C19_OnlyOwnData ==
    [][/\ (tool'.user_id.given
           /\ tool'.user_id.value # tool'.authenticatedUserId) =>
              /\ tool'.http = 403
              /\ products' = products /\ sales' = sales
              /\ invoice_drafts' = invoice_drafts
       /\ \A q \in DOMAIN products :
             products'[q] # products[q] =>
                 products[q].user_id = tool'.authenticatedUserId
       /\ \A q \in DOMAIN sales :
             \A k \in 1..Len(sales'[q].extra) :
                 k > Len(sales[q].extra) =>
                     sales'[q].extra[k].user_id = tool'.authenticatedUserId
       /\ invoice_drafts' # invoice_drafts =>
             \A u \in UserIds \ {tool'.authenticatedUserId} :
                 SelectSeq(invoice_drafts', LAMBDA d : d.user_id = u)
                     = SelectSeq(invoice_drafts, LAMBDA d : d.user_id = u)]_vars

----------------------------------------------------------------------------
(* Claims on the rate limiter (specification SpecRate) *)

\* C27: a window of a client key lets at most RATE_LIMIT requests through,
\* and a request that finds the count above RATE_LIMIT is answered Too Many
\* Requests; a window lasts RATE_WINDOW; the count of a key restarts only at
\* a request made after the reset time of its window; and as long as the
\* reset time has not passed the entry of the key is kept, with the count of
\* the requests of the window.
C27_RateLimit ==
    \A k \in RateKeys :
        LET w == windows[k]
            e == rateLimitMap[k]
        IN  w.requests > 0 =>
                /\ w.passed <= RATE_LIMIT
                /\ w.requests > RATE_LIMIT => w.answered = "Too Many Requests"
                /\ w.resetTime = w.firstAt + RATE_WINDOW
                /\ w.firstAt > w.before
                /\ clock <= w.resetTime =>
                       e.present /\ e.resetTime = w.resetTime /\ e.count = w.requests

\* a key is refused in its second window, at the reset time of that window,
\* after the cleanup has removed the entry of the other key
C27_Witness ==
    \E k \in RateKeys, other \in RateKeys :
        /\ k # other
        /\ windows[k].before > 0
        /\ windows[k].requests > RATE_LIMIT + 1
        /\ windows[k].passed = RATE_LIMIT
        /\ clock = windows[k].resetTime
        /\ limited.key = k /\ limited.answered = "Too Many Requests"
        /\ windows[other].requests > 0
        /\ ~rateLimitMap[other].present

----------------------------------------------------------------------------
(* Claims on the requests that run step by step (specification            *)
(* SpecConcurrent)                                                         *)

\* the requests of finalize_draft_invoice
Finalizes == {i \in Procs : procs[i].name = "finalize_draft_invoice"}

\* the units of product p in the items
RECURSIVE ItemQuantity(_, _)
ItemQuantity(items, p) ==
    IF items = <<>> THEN 0
    ELSE (IF Head(items).product_id = p THEN Head(items).quantity ELSE 0)
             + ItemQuantity(Tail(items), p)

\* the units of product p in the drafts of the session of the user
RECURSIVE DraftQuantity(_, _, _)
DraftQuantity(drafts, input, p) ==
    IF drafts = <<>> THEN 0
    ELSE (IF Head(drafts).user_id = input.user_id
             /\ Head(drafts).session_id = input.session_id
          THEN ItemQuantity(Head(drafts).items, p) ELSE 0)
             + DraftQuantity(Tail(drafts), input, p)

\* the invoices made from the draft of the session of the user
InvoicesOf(input) ==
    {n \in 1..Len(invoices) :
        invoices[n].user_id = input.user_id /\ invoices[n].session_id = input.session_id}

\* every request made so far is a finalize_draft_invoice, and the store
\* answered all their queries
OnlyFinalizes ==
    \A i \in Procs : procs[i].pc # "idle" => i \in Finalizes /\ ~procs[i].faulted

\* C28: whatever the interleaving of the finalize_draft_invoice requests of
\* a session, at most one invoice is made from its draft, the stock of a
\* product goes down by the quantity of the draft at most, and once one
\* request has returned any other ends with 'Draft invoice not found'.
C28_OneInvoicePerSession ==
    OnlyFinalizes =>
        \A i \in Finalizes :
            /\ Cardinality(InvoicesOf(procs[i].input)) <= 1
            /\ \A p \in DOMAIN products :
                   products[p].quantity >=
                       procs[i].before.products[p].quantity
                           - DraftQuantity(procs[i].before.drafts, procs[i].input, p)
            /\ \A j \in Finalizes \ {i} :
                   (/\ procs[i].pc = "done" /\ procs[j].pc = "done"
                    /\ procs[i].input = procs[j].input
                    /\ procs[i].response.status = "returned") =>
                       procs[j].response = Thrown("Draft invoice not found")

\* the tables as they are
Stored == Tables(products, sales, invoices, invoice_drafts)

\* C29: a finalizeDraftInvoice that runs alone and throws leaves the tables
\* as they were when it started; one that returns has inserted the invoice
\* and its items, taken every item from the stock and deleted the draft.
C29_AllOrNothing ==
    \A i \in Finalizes :
        (procs[i].pc = "done" /\ \A j \in Procs \ {i} : procs[j].pc = "idle") =>
            LET before == procs[i].before
                input  == procs[i].input
                items  == procs[i].items
            IN  IF procs[i].response.status = "thrown"
                THEN Stored = before
                ELSE /\ invoices = insertInvoice(before.invoices, input)
                     /\ sales = insertInvoiceItems(before.sales, items, input.user_id,
                                                   clock)
                     /\ products = updateProductStock(before.products, items,
                                                      input.user_id)
                     /\ DraftsOf(invoice_drafts, input.user_id, input.session_id) = {}

\* what the request has added to the stock of product p
StockChange(proc, p) ==
    IF proc.response.status # "returned" THEN 0
    ELSE IF proc.name = "finalize_draft_invoice" THEN 0 - ItemQuantity(proc.items, p)
    ELSE IF proc.input.product_id # p THEN 0
    ELSE IF proc.input.operation = "add" THEN proc.input.quantity
    ELSE 0 - proc.input.quantity

RECURSIVE SumStockChanges(_, _)
SumStockChanges(ps, p) ==
    IF ps = {} THEN 0
    ELSE LET i == CHOOSE i \in ps : TRUE
         IN  StockChange(procs[i], p) + SumStockChanges(ps \ {i}, p)

\* C30: when the requests have ended, and the store answered all their
\* queries, the quantity of a product is its initial quantity plus what the
\* update_stock requests added, minus what they subtracted and what the
\* finalized drafts sold.
C30_NoLostUpdate ==
    (\A i \in Procs : procs[i].pc = "done" /\ ~procs[i].faulted) =>
        \A p \in 1..NumProducts :
            products[p].quantity = ServiceStocks[p] + SumStockChanges(Procs, p)

============================================================================
